---------------------------- MODULE Spec2Model ----------------------------
(***************************************************************************)
(* A model of the scan core of the web3 security dashboard: the scan       *)
(* lifecycle (createScanRequest, the queue worker and processScanJob, the  *)
(* polling lookup getScanById), the two Redis keyspaces, and the bytecode  *)
(* analyzer the worker runs.                                               *)
(*                                                                         *)
(* JavaScript strings are modelled as sequences of one-character strings,  *)
(* so that prefix tests, slicing, case folding and substring search are    *)
(* computed and not assumed.                                               *)
(***************************************************************************)
EXTENDS Integers, Sequences, FiniteSets, TLC

(***************************************************************************)
(* Strings                                                                 *)
(***************************************************************************)

\* String.prototype.toLowerCase on the characters a hex string or an ABI
\* function name is drawn from.
ToLowerChar(c) ==
  CASE c = "A" -> "a" [] c = "B" -> "b" [] c = "C" -> "c" [] c = "D" -> "d"
    [] c = "E" -> "e" [] c = "F" -> "f" [] c = "X" -> "x" [] c = "O" -> "o"
    [] c = "P" -> "p" [] c = "M" -> "m" [] c = "S" -> "s" [] c = "W" -> "w"
    [] c = "T" -> "t"
    [] OTHER -> c

ToLowerCase(s) == [i \in 1..Len(s) |-> ToLowerChar(s[i])]

\* String.prototype.slice(from, to) with 0-based, end-exclusive indices that
\* are clamped to the length of the string.
Slice(s, from, to) ==
  LET hi == IF to > Len(s) THEN Len(s) ELSE to
  IN  IF from >= hi THEN <<>> ELSE SubSeq(s, from + 1, hi)

StartsWith(s, p) == Len(s) >= Len(p) /\ SubSeq(s, 1, Len(p)) = p

\* String.prototype.includes
Includes(s, k) ==
  \E i \in 1..(Len(s) + 1) : i + Len(k) - 1 <= Len(s) /\ SubSeq(s, i, i + Len(k) - 1) = k

HexPrefix == <<"0", "x">>

\* The value of one lower-case hexadecimal digit, -1 for any other character.
HexDigitValue(c) ==
  CASE c = "0" -> 0  [] c = "1" -> 1  [] c = "2" -> 2  [] c = "3" -> 3
    [] c = "4" -> 4  [] c = "5" -> 5  [] c = "6" -> 6  [] c = "7" -> 7
    [] c = "8" -> 8  [] c = "9" -> 9  [] c = "a" -> 10 [] c = "b" -> 11
    [] c = "c" -> 12 [] c = "d" -> 13 [] c = "e" -> 14 [] c = "f" -> 15
    [] OTHER -> -1

\* parseInt's NaN: every comparison with it is false.
NaN == -1

\* parseInt(s, 16) on a slice of at most two characters: an optional 0x prefix
\* is dropped, then the longest run of hexadecimal digits is read; NaN when
\* there is none.
HexValue(u) ==
  IF Len(u) = 0 \/ HexDigitValue(u[1]) < 0 THEN NaN
  ELSE IF Len(u) = 1 \/ HexDigitValue(u[2]) < 0 THEN HexDigitValue(u[1])
  ELSE 16 * HexDigitValue(u[1]) + HexDigitValue(u[2])

DropHexPrefix(t) == IF StartsWith(t, HexPrefix) THEN Slice(t, 2, Len(t)) ELSE t

ParseInt16(s) == HexValue(DropHexPrefix(ToLowerCase(s)))

(***************************************************************************)
(* The opcode catalog and the tables of bytecodeAnalyzer.ts                *)
(***************************************************************************)

\* Object.entries(opcodeMetadata): the integer-like keys "32" and "55" come
\* first in ascending order, the other keys follow in insertion order.
opcodeMetadata ==
  << [key |-> <<"3", "2">>, name |-> "ORIGIN", id |-> "origin-usage", severity |-> "high"],
     [key |-> <<"5", "5">>, name |-> "SSTORE", id |-> "sstore-usage", severity |-> "low"],
     [key |-> <<"f", "0">>, name |-> "CREATE", id |-> "create-usage", severity |-> "medium"],
     [key |-> <<"f", "1">>, name |-> "CALL", id |-> "call-usage", severity |-> "medium"],
     [key |-> <<"f", "2">>, name |-> "CALLCODE", id |-> "callcode-usage", severity |-> "critical"],
     [key |-> <<"f", "4">>, name |-> "DELEGATECALL", id |-> "delegatecall-usage", severity |-> "high"],
     [key |-> <<"f", "5">>, name |-> "CREATE2", id |-> "create2-usage", severity |-> "medium"],
     [key |-> <<"f", "a">>, name |-> "STATICCALL", id |-> "staticcall-usage", severity |-> "low"],
     [key |-> <<"f", "f">>, name |-> "SELFDESTRUCT", id |-> "selfdestruct-usage", severity |-> "high"],
     [key |-> <<"3", "f">>, name |-> "EXTCODESIZE", id |-> "extcodesize-usage", severity |-> "low"] >>


\* opcodeMetadata[opcodeHex]: the index of the entry, 0 when undefined.
CatalogIndex(opcodeHex) ==
  IF \E i \in 1..Len(opcodeMetadata) : opcodeMetadata[i].key = opcodeHex
  THEN CHOOSE i \in 1..Len(opcodeMetadata) : opcodeMetadata[i].key = opcodeHex
  ELSE 0

severityWeight(severity) ==
  CASE severity = "low" -> 1
    [] severity = "medium" -> 3
    [] severity = "high" -> 6
    [] severity = "critical" -> 10

adminKeywords ==
  { <<"o", "w", "n", "e", "r">>,
    <<"a", "d", "m", "i", "n">>,
    <<"s", "e", "t", "a", "d", "m", "i", "n">>,
    <<"s", "e", "t", "o", "w", "n", "e", "r">>,
    <<"p", "a", "u", "s", "e">>,
    <<"u", "n", "p", "a", "u", "s", "e">>,
    <<"u", "p", "g", "r", "a", "d", "e">>,
    <<"t", "r", "a", "n", "s", "f", "e", "r", "o", "w", "n", "e", "r", "s", "h", "i", "p">> }

financialKeywords ==
  { <<"w", "i", "t", "h", "d", "r", "a", "w">>,
    <<"d", "e", "p", "o", "s", "i", "t">>,
    <<"t", "r", "a", "n", "s", "f", "e", "r">>,
    <<"m", "i", "n", "t">>,
    <<"b", "u", "r", "n">>,
    <<"s", "w", "e", "e", "p">>,
    <<"c", "l", "a", "i", "m">> }

\* A normalization that adds the prefix and keeps the letter case.
normalizeBytecodeKeepingCase(bytecode) ==
  IF bytecode = <<>> THEN HexPrefix
  ELSE IF StartsWith(bytecode, HexPrefix) THEN bytecode
  ELSE HexPrefix \o bytecode

normalizeBytecode(bytecode) ==
  IF bytecode = <<>> THEN HexPrefix
  ELSE IF StartsWith(bytecode, HexPrefix) THEN ToLowerCase(bytecode)
  ELSE HexPrefix \o ToLowerCase(bytecode)

isPushOpcode(opcode) == opcode >= 96 /\ opcode <= 127

\* A mapping whose thresholds are exclusive.
evaluateRiskLevelAbove(score) ==
  IF score > 18 THEN "critical"
  ELSE IF score > 12 THEN "high"
  ELSE IF score > 6 THEN "medium"
  ELSE "low"

evaluateRiskLevel(score) ==
  IF score >= 18 THEN "critical"
  ELSE IF score >= 12 THEN "high"
  ELSE IF score >= 6 THEN "medium"
  ELSE "low"


(***************************************************************************)
(* Optional values (a JavaScript property that may be undefined)           *)
(***************************************************************************)

Undefined    == [def |-> FALSE, val |-> <<>>]
UndefinedNum == [def |-> FALSE, val |-> 0]
Some(v)      == [def |-> TRUE, val |-> v]

\* The metadata object of a finding: at most one key in this program.
NoMetadata         == [key |-> "none", num |-> 0, str |-> <<>>]
NumMetadata(k, n)  == [key |-> k, num |-> n, str |-> <<>>]
StrMetadata(k, s)  == [key |-> k, num |-> 0, str |-> s]

(***************************************************************************)
(* analyzeAbi                                                              *)
(*                                                                         *)
(* An ABI is undefined, a value new Interface() rejects, or a list of      *)
(* fragments, each with a type and a name.                                 *)
(***************************************************************************)

NoAbi          == [kind |-> "undefined", fragments |-> <<>>]
MalformedAbi   == [kind |-> "malformed", fragments |-> <<>>]
AbiOf(frags)   == [kind |-> "fragments", fragments |-> frags]

\* The truthiness of an abi value (if (abi), if (!abi)).
AbiTruthy(abi) == abi.kind # "undefined"

\* A count of the keywords matched, not of the functions matching.
RECURSIVE CountKeywordMatches(_, _, _)
CountKeywordMatches(frags, n, keywords) ==
  IF n = 0 THEN 0
  ELSE CountKeywordMatches(frags, n - 1, keywords)
         + (IF frags[n].type = "function"
            THEN Cardinality({keyword \in keywords :
                                Includes(ToLowerCase(frags[n].name), keyword)})
            ELSE 0)

\* The number of fragments of frags[1..n] that are functions with a non-empty
\* name whose lower-cased name contains one of the keywords.
RECURSIVE CountMatches(_, _, _)
CountMatches(frags, n, keywords) ==
  IF n = 0 THEN 0
  ELSE LET fragment == frags[n]
           fn       == ToLowerCase(fragment.name)
           hit      == /\ fragment.type = "function"
                       /\ fn # <<>>
                       /\ \E keyword \in keywords : Includes(fn, keyword)
       IN  CountMatches(frags, n - 1, keywords) + (IF hit THEN 1 ELSE 0)

\* A scanner that lets the parse error of the ABI escape: no finding for it.
analyzeAbiWithoutCatch(abi) ==
  IF abi.kind # "fragments" THEN <<>>
  ELSE LET adminFunctionCount     == CountMatches(abi.fragments, Len(abi.fragments), adminKeywords)
           financialFunctionCount == CountMatches(abi.fragments, Len(abi.fragments), financialKeywords)
       IN  (IF adminFunctionCount > 0
            THEN << [id |-> "admin-function-detected",
                     severity |-> IF adminFunctionCount > 2 THEN "high" ELSE "medium",
                     metadata |-> NumMetadata("count", adminFunctionCount)] >>
            ELSE <<>>)
           \o (IF financialFunctionCount > 0
               THEN << [id |-> "financial-function-detected", severity |-> "medium",
                        metadata |-> NumMetadata("count", financialFunctionCount)] >>
               ELSE <<>>)

analyzeAbi(abi) ==
  IF ~AbiTruthy(abi) THEN <<>>
  ELSE IF abi.kind = "malformed"
  THEN << [id |-> "abi-parse-error", severity |-> "medium",
           metadata |-> StrMetadata("rawError", <<>>)] >>
  ELSE LET adminFunctionCount     == CountMatches(abi.fragments, Len(abi.fragments), adminKeywords)
           financialFunctionCount == CountMatches(abi.fragments, Len(abi.fragments), financialKeywords)
           admin == IF adminFunctionCount > 0
                    THEN << [id |-> "admin-function-detected",
                             severity |-> IF adminFunctionCount > 2 THEN "high" ELSE "medium",
                             metadata |-> NumMetadata("count", adminFunctionCount)] >>
                    ELSE <<>>
           financial == IF financialFunctionCount > 0
                        THEN << [id |-> "financial-function-detected",
                                 severity |-> "medium",
                                 metadata |-> NumMetadata("count", financialFunctionCount)] >>
                        ELSE <<>>
       IN  admin \o financial

(***************************************************************************)
(* analyzeBytecode                                                         *)
(***************************************************************************)

\* The walk loop: for (let i = 0; i < hex.length; ) { ... }.  i is the 0-based
\* read position; hits is dangerousOpcodeHits, a map whose keys are the names
\* seen so far; unique is the set uniqueOpcodes.
\* dangerousOpcodeHits[name] = (dangerousOpcodeHits[name] ?? 0) + 1
CountHit(hits, name) ==
  [n \in (DOMAIN hits) \cup {name} |->
     IF n = name THEN (IF name \in DOMAIN hits THEN hits[name] ELSE 0) + 1 ELSE hits[n]]

\* const metadata = opcodeMetadata[opcodeHex]; if (metadata) { count the hit }
RecordHit(hits, ci) == IF ci = 0 THEN hits ELSE CountHit(hits, opcodeMetadata[ci].name)

\* A step that skips pushLength hexadecimal digits, not pushLength bytes.
AdvanceByDigits(i, opcodeValue) ==
  IF isPushOpcode(opcodeValue) THEN i + 2 + (opcodeValue - 95) ELSE i + 2

\* A step that forgets the opcode's own byte when it skips a push operand.
AdvanceOperandOnly(i, opcodeValue) ==
  IF isPushOpcode(opcodeValue) THEN i + (opcodeValue - 95) * 2 - 2 ELSE i + 2

\* if (isPushOpcode(opcodeValue)) { i += 2 + pushLength * 2 } else { i += 2 },
\* with pushLength = opcodeValue - 0x5f
Advance(i, opcodeValue) ==
  IF isPushOpcode(opcodeValue) THEN i + 2 + (opcodeValue - 95) * 2 ELSE i + 2

RECURSIVE Walk(_, _, _, _, _)
\* A walk whose uniqueOpcodes set takes the catalogued opcodes only.
WalkOpcodeUniqueOfCatalog(hex, i, totalOpcodes, unique, hits, opcodeHex) ==
  Walk(hex, Advance(i, ParseInt16(opcodeHex)), totalOpcodes + 1,
       IF CatalogIndex(opcodeHex) = 0 THEN unique ELSE unique \cup {opcodeHex},
       RecordHit(hits, CatalogIndex(opcodeHex)))

WalkOpcode(hex, i, totalOpcodes, unique, hits, opcodeHex) ==
  Walk(hex, Advance(i, ParseInt16(opcodeHex)), totalOpcodes + 1, unique \cup {opcodeHex},
       RecordHit(hits, CatalogIndex(opcodeHex)))

Walk(hex, i, totalOpcodes, unique, hits) ==
  IF ~(i < Len(hex))
  THEN [totalOpcodes |-> totalOpcodes, unique |-> unique, hits |-> hits]
  ELSE WalkOpcode(hex, i, totalOpcodes, unique, hits, Slice(hex, i, i + 2))

EmptyHits == [n \in {} |-> 0]

\* A finding whose severity grows with the number of occurrences.
OpcodeFindingEscalated(entry, occurrences) ==
  [id |-> entry.id,
   severity |-> IF occurrences > 1 THEN "critical" ELSE entry.severity,
   metadata |-> NumMetadata("occurrences", occurrences)]

OpcodeFinding(entry, occurrences) ==
  [id |-> entry.id, severity |-> entry.severity,
   metadata |-> NumMetadata("occurrences", occurrences)]

\* appendFinding: const metadata = opcodeMetadata[metadataKey]; if (!metadata) return
AppendAt(findings, ci, occurrences) ==
  IF ci = 0 THEN findings ELSE Append(findings, OpcodeFinding(opcodeMetadata[ci], occurrences))

appendFinding(findings, metadataKey, occurrences) ==
  AppendAt(findings, CatalogIndex(metadataKey), occurrences)

\* dangerousOpcodeHits[entry.name], 0 when the name was never counted
Occurrences(hits, opcodeName) == IF opcodeName \in DOMAIN hits THEN hits[opcodeName] ELSE 0

\* if (occurrences) appendFinding(findings, opcodeHex, occurrences)
AppendIfSeen(findings, entry, occurrences) ==
  IF occurrences # 0 THEN appendFinding(findings, entry.key, occurrences) ELSE findings

\* for (const [opcodeHex, entry] of Object.entries(opcodeMetadata)) over the
\* first n entries.
RECURSIVE OpcodeFindings(_, _)
OpcodeFindings(hits, n) ==
  IF n = 0 THEN <<>>
  ELSE AppendIfSeen(OpcodeFindings(hits, n - 1), opcodeMetadata[n],
                    Occurrences(hits, opcodeMetadata[n].name))

\* A sum that counts a finding once for each occurrence it reports.
RECURSIVE SumWeightsPerOccurrence(_, _)
SumWeightsPerOccurrence(findings, n) ==
  IF n = 0 THEN 0
  ELSE SumWeightsPerOccurrence(findings, n - 1)
         + severityWeight(findings[n].severity)
             * (IF findings[n].metadata.key = "occurrences" THEN findings[n].metadata.num ELSE 1)

RECURSIVE SumWeights(_, _)
SumWeights(findings, n) ==
  IF n = 0 THEN 0
  ELSE SumWeights(findings, n - 1) + severityWeight(findings[n].severity)

\* ethers' keccak256 takes a BytesLike: 0x followed by an even number of
\* hexadecimal digits; it throws on anything else.
IsBytesLike(data) ==
  /\ StartsWith(data, HexPrefix)
  /\ Len(data) % 2 = 0
  /\ \A i \in 3..Len(data) : HexDigitValue(ToLowerChar(data[i])) >= 0

\* keccak256 as a collision-free digest: the digest names its preimage.
Keccak256(data) == <<"keccak256:">> \o data

HasRisk(findings) ==
  \E i \in 1..Len(findings) : findings[i].severity \in {"high", "critical"}

\* An empty-bytecode report that scores its one finding.
EmptyReportScored(address, balanceWei, blockNumber) ==
  [threw |-> FALSE,
   address |-> address,
   riskScore |-> severityWeight("low"),
   riskLevel |-> "low",
   findings |-> << [id |-> "empty-bytecode", severity |-> "low", metadata |-> NoMetadata] >>,
   opcodeSummary |-> [totalOpcodes |-> 0, dangerousOpcodeHits |-> EmptyHits,
                      uniqueOpcodes |-> 0],
   bytecodeHash |-> <<"0", "x", "0">>,
   balanceWei |-> balanceWei,
   blockNumber |-> blockNumber]

\* The report of an account without code.
EmptyReport(address, balanceWei, blockNumber) ==
  [threw |-> FALSE,
   address |-> address,
   riskScore |-> 0,
   riskLevel |-> "low",
   findings |-> << [id |-> "empty-bytecode", severity |-> "low", metadata |-> NoMetadata] >>,
   opcodeSummary |-> [totalOpcodes |-> 0, dangerousOpcodeHits |-> EmptyHits,
                      uniqueOpcodes |-> 0],
   bytecodeHash |-> <<"0", "x", "0">>,
   balanceWei |-> balanceWei,
   blockNumber |-> blockNumber]

\* A balance rule that fires for every known balance, risky findings or not.
BalanceRuleAnyFindings(findings, balanceWei) ==
  IF balanceWei.def /\ balanceWei.val # <<>>
  THEN Append(findings, [id |-> "high-balance-with-risks", severity |-> "high",
                         metadata |-> StrMetadata("balanceWei", balanceWei.val)])
  ELSE findings

\* if (options.balanceWei && findings.some(high or critical)): balanceWei is
\* an optional string, truthy when it is defined and not empty.
BalanceRule(findings, balanceWei) ==
  IF balanceWei.def /\ balanceWei.val # <<>> /\ HasRisk(findings)
  THEN Append(findings, [id |-> "high-balance-with-risks", severity |-> "high",
                         metadata |-> StrMetadata("balanceWei", balanceWei.val)])
  ELSE findings

\* A padding rule that also fires at a ratio of exactly 0.25.
PaddingRuleAtQuarter(findings, totalOpcodes, hex) ==
  IF 8 * totalOpcodes <= Len(hex)
  THEN Append(findings, [id |-> "suspicious-padding", severity |-> "medium",
                         metadata |-> NoMetadata])
  ELSE findings

\* if (totalOpcodes / (hex.length / 2 || 1) < 0.25), in integers
PaddingRule(findings, totalOpcodes, hex) ==
  IF 8 * totalOpcodes < Len(hex)
  THEN Append(findings, [id |-> "suspicious-padding", severity |-> "medium",
                         metadata |-> NoMetadata])
  ELSE findings

\* An assembly that takes the ABI findings before the opcode findings.
FindingsAbiFirst(hex, w, balanceWei, abi) ==
  PaddingRule(BalanceRule(analyzeAbi(abi) \o OpcodeFindings(w.hits, Len(opcodeMetadata)),
                          balanceWei),
              w.totalOpcodes, hex)

Findings(hex, w, balanceWei, abi) ==
  PaddingRule(BalanceRule(OpcodeFindings(w.hits, Len(opcodeMetadata)) \o analyzeAbi(abi),
                          balanceWei),
              w.totalOpcodes, hex)

\* The report once the findings are complete; keccak256 throws when the
\* normalized bytecode is not BytesLike.
Scored(address, normalizedBytecode, w, findings, totalRiskScore, balanceWei, blockNumber) ==
  [threw |-> ~IsBytesLike(normalizedBytecode),
   address |-> address,
   riskScore |-> totalRiskScore,
   riskLevel |-> evaluateRiskLevel(totalRiskScore),
   findings |-> findings,
   opcodeSummary |-> [totalOpcodes |-> w.totalOpcodes,
                      dangerousOpcodeHits |-> w.hits,
                      uniqueOpcodes |-> Cardinality(w.unique)],
   bytecodeHash |-> Keccak256(normalizedBytecode),
   balanceWei |-> balanceWei,
   blockNumber |-> blockNumber]

Summed(address, normalizedBytecode, w, findings, balanceWei, blockNumber) ==
  Scored(address, normalizedBytecode, w, findings, SumWeights(findings, Len(findings)),
         balanceWei, blockNumber)

Walked(address, normalizedBytecode, hex, w, balanceWei, blockNumber, abi) ==
  Summed(address, normalizedBytecode, w, Findings(hex, w, balanceWei, abi),
         balanceWei, blockNumber)

AnalyzeHex(address, normalizedBytecode, hex, balanceWei, blockNumber, abi) ==
  IF Len(hex) = 0
  THEN EmptyReport(address, balanceWei, blockNumber)
  ELSE Walked(address, normalizedBytecode, hex, Walk(hex, 0, 0, {}, EmptyHits),
              balanceWei, blockNumber, abi)

AnalyzeNormalized(address, normalizedBytecode, balanceWei, blockNumber, abi) ==
  AnalyzeHex(address, normalizedBytecode,
             Slice(normalizedBytecode, 2, Len(normalizedBytecode)),
             balanceWei, blockNumber, abi)

analyzeBytecode(address, bytecode, balanceWei, blockNumber, abi) ==
  AnalyzeNormalized(address, normalizeBytecode(bytecode), balanceWei, blockNumber, abi)


(***************************************************************************)
(* Addresses: normalizeAddress and ethers' getAddress                      *)
(*                                                                         *)
(* An address string is described by the account it spells (base), the way *)
(* it is spelled (form) and whether white space surrounds it (pad):        *)
(*   lower     0x + 40 lower-case hex digits                               *)
(*   checksum  the EIP-55 mixed-case spelling                              *)
(*   badsum    mixed case that is not the EIP-55 spelling                  *)
(*   garbage   not 40 hex digits                                           *)
(*   empty     no characters                                               *)
(***************************************************************************)

Accounts == {"aa"}

Address(form, base, pad) == [form |-> form, base |-> base, pad |-> pad]

NoAddress == Address("empty", "", FALSE)

\* String.prototype.trim
Trim(a) == [a EXCEPT !.pad = FALSE]

\* !address: only the empty string is falsy.
AddressFalsy(a) == a.form = "empty" /\ ~a.pad

\* A getAddress that does not verify the checksum of a mixed-case spelling.
GetAddressSkipsChecksum(a) == a.pad \/ a.form \notin {"lower", "checksum", "badsum"}

\* ethers.getAddress: the checksummed spelling, or a throw.
GetAddressThrows(a) == a.pad \/ a.form \notin {"lower", "checksum"}
GetAddress(a)       == [a EXCEPT !.form = "checksum"]

\* toLowerCase of an address
AddressToLowerCase(a) ==
  [a EXCEPT !.form = IF a.form \in {"checksum", "badsum"} THEN "lower" ELSE a.form]

\* The outcome of a call that may throw: status is the statusCode of the
\* HttpError thrown, 0 for an Error that carries none.
Returned(v)        == [threw |-> FALSE, status |-> 0, message |-> "", value |-> v]
Thrown(st, m, v0)  == [threw |-> TRUE, status |-> st, message |-> m, value |-> v0]

normalizeAddress(address) ==
  IF AddressFalsy(address)
  THEN Thrown(0, "Address is required", NoAddress)
  ELSE IF GetAddressThrows(Trim(address))
  THEN Thrown(400, "Invalid Ethereum address", NoAddress)
  ELSE Returned(AddressToLowerCase(GetAddress(Trim(address))))

\* errorHandler: an HttpError answers with its statusCode, any other error
\* with 500.
errorHandler(status) == IF status # 0 THEN status ELSE 500

(***************************************************************************)
(* Maps with a changing key set (Redis keyspaces)                          *)
(***************************************************************************)

EmptyMap == [k \in {} |-> <<>>]

MapSet(m, k, v) == [x \in (DOMAIN m) \cup {k} |-> IF x = k THEN v ELSE m[x]]

MapDel(m, k) == [x \in (DOMAIN m) \ {k} |-> m[x]]

(***************************************************************************)
(* The contract store (contractService)                                    *)
(***************************************************************************)

NewContract(address, network) ==
  [address |-> address, network |-> network, labels |-> {}, metadata |-> <<>>,
   latestScan |-> 0, riskScore |-> UndefinedNum, riskLevel |-> ""]

\* A lookup that never finds the document: every upsert inserts.
FindContractMisses(cs, address, network) == 0

\* ContractModel.findOne({address, network}): the _id (the index in the
\* collection), 0 for null.
FindContract(cs, address, network) ==
  IF \E i \in 1..Len(cs) : cs[i].address = address /\ cs[i].network = network
  THEN CHOOSE i \in 1..Len(cs) : cs[i].address = address /\ cs[i].network = network
  ELSE 0

\* ensureContract's findOneAndUpdate(..., {new: true, upsert: true}) for an
\* address that normalizeAddress accepts: the collection after the call and
\* the _id of the document returned.  labels is a sequence, metadata the
\* sequence of the key/value entries of the object supplied ($set replaces
\* the whole metadata field).
ensureContract(cs, address, network, labels, metadata) ==
  LET normalizedAddress == normalizeAddress(address).value
      found == FindContract(cs, normalizedAddress, network)
      base  == IF found = 0 THEN Append(cs, NewContract(normalizedAddress, network)) ELSE cs
      id    == IF found = 0 THEN Len(cs) + 1 ELSE found
      withLabels == IF Len(labels) > 0
                    THEN [base EXCEPT ![id].labels = @ \cup {labels[i] : i \in 1..Len(labels)}]
                    ELSE base
      withMeta   == IF Len(metadata) > 0
                    THEN [withLabels EXCEPT ![id].metadata = metadata]
                    ELSE withLabels
  IN  [contracts |-> withMeta, id |-> id]

updateContractRisk(cs, contractId, riskScore, riskLevel, latestScan) ==
  IF contractId \in 1..Len(cs)
  THEN [cs EXCEPT ![contractId].riskScore = Some(riskScore),
                  ![contractId].riskLevel = riskLevel,
                  ![contractId].latestScan = latestScan]
  ELSE cs

(***************************************************************************)
(* The scan store (ScanModel) and the status writes of scanService         *)
(***************************************************************************)

InFlightStatuses == {"pending", "running"}

NewScan(contractId, abi) ==
  [contract |-> contractId, status |-> "pending", abi |-> abi,
   results |-> <<>>, error |-> ""]

\* A query that leaves the status filter out: the newest scan of the contract.
FindNewest(ss, contractId) ==
  LET hits == {i \in 1..Len(ss) : ss[i].contract = contractId}
  IN  IF hits = {} THEN 0 ELSE CHOOSE i \in hits : \A j \in hits : j <= i

\* ScanModel.findOne({contract, status: {$in: [pending, running]}})
\*   .sort({createdAt: -1}): the newest such scan, 0 for null.
FindInFlight(ss, contractId) ==
  LET hits == {i \in 1..Len(ss) : ss[i].contract = contractId /\ ss[i].status \in InFlightStatuses}
  IN  IF hits = {} THEN 0 ELSE CHOOSE i \in hits : \A j \in hits : j <= i

\* The fields of a report that processScanJob copies into the scan document.
ScanResults(report) ==
  [riskScore |-> report.riskScore, riskLevel |-> report.riskLevel,
   findings |-> report.findings, opcodeSummary |-> report.opcodeSummary,
   bytecodeHash |-> report.bytecodeHash, balanceWei |-> report.balanceWei,
   blockNumber |-> report.blockNumber]

\* updateScanStatus(scanId, status, updates): findByIdAndUpdate with
\* $set {status, ...updates}; fields not named keep their value, and an id
\* that matches no document changes nothing.
updateScanStatus(ss, scanId, status, results, error) ==
  IF scanId \in 1..Len(ss)
  THEN [ss EXCEPT ![scanId].status = status,
                  ![scanId].results = IF results = <<>> THEN @ ELSE results,
                  ![scanId].error = IF error = "" THEN @ ELSE error]
  ELSE ss

(***************************************************************************)
(* cacheService                                                            *)
(***************************************************************************)

\* A read that never finds an entry: the chain is asked every time.
getCachedBytecodeNull(cache, address) == <<>>

\* getCachedBytecode: redis.get, <<>> standing for null.
getCachedBytecode(cache, address) ==
  IF address \in DOMAIN cache THEN <<cache[address]>> ELSE <<>>

\* setCachedBytecode: nothing is written for a falsy (empty) string.
setCachedBytecode(cache, address, bytecode) ==
  IF bytecode = <<>> THEN cache ELSE MapSet(cache, address, bytecode)

\* cacheScanReport: the report is stored under the scan id.
cacheScanReport(cache, scanId, report) == MapSet(cache, scanId, report)

\* A read under the key of the other keyspace: it never finds a report.
getCachedScanReportWrongKey(cache, scanId) == <<>>

\* getCachedScanReport: <<>> standing for null.
getCachedScanReport(cache, scanId) ==
  IF scanId \in DOMAIN cache THEN <<cache[scanId]>> ELSE <<>>


(***************************************************************************)
(* Bounds and the inputs the environment supplies                          *)
(***************************************************************************)

\* How many submissions (POST /contracts/:address/scan) are made in a run.
MaxRequests == 2

\* How many times the worker process is stopped and started again; a restart
\* is how the queue comes to deliver a message more than once.
MaxRestarts == 1

Requests == 1..MaxRequests

RawAddresses ==
  { Address("empty", "", FALSE), Address("empty", "", TRUE),
    Address("garbage", "", FALSE), Address("badsum", "aa", FALSE),
    Address("lower", "aa", FALSE), Address("checksum", "aa", FALSE),
    Address("lower", "aa", TRUE) }

\* The network of a request body: "" when the body names none.
NetworkInputs == {"", "sepolia"}

SampleAbi == AbiOf(<< [type |-> "function", name |-> <<"m", "i", "n", "t">>] >>)

AbiInputs == {SampleAbi}

\* What the chain data source can answer.
Codes == { <<"0", "x">>, <<"0", "x", "f", "4", "f", "f">> }

Balances == {0}

BlockNumbers == {100}

DigitChar(d) ==
  CASE d = 0 -> "0" [] d = 1 -> "1" [] d = 2 -> "2" [] d = 3 -> "3" [] d = 4 -> "4"
    [] d = 5 -> "5" [] d = 6 -> "6" [] d = 7 -> "7" [] d = 8 -> "8" [] d = 9 -> "9"

\* bigint.toString()
RECURSIVE BalanceToString(_)
BalanceToString(n) ==
  IF n < 10 THEN <<DigitChar(n)>>
  ELSE BalanceToString(n \div 10) \o <<DigitChar(n % 10)>>

(***************************************************************************)
(* State                                                                   *)
(***************************************************************************)

VARIABLES
  contracts,      \* the Contract collection; a document's _id is its index
  scans,          \* the Scan collection; a document's _id is its index
  queue,          \* the topic: every message ever sent, in order
  position,       \* how many messages the consumer has been handed
  restarts,       \* how many times the worker was restarted
  worker,         \* the worker's place in eachMessage / processScanJob
  requests,       \* the submissions and how far each has got
  reportCache,    \* Redis scan:<id>:report
  bytecodeCache,  \* Redis contract:<address>:bytecode
  lookup,         \* the polling lookup (GET /scans/:scanId)
  analysis,       \* a call of analyzeBytecode: its arguments and what it returned
  snapshot        \* a chain snapshot request's place in getContractState

vars == <<contracts, scans, queue, position, restarts, worker,
          requests, reportCache, bytecodeCache, lookup, analysis, snapshot>>

NoJob == [scanId |-> 0, contractId |-> 0, address |-> NoAddress, network |-> "", abi |-> NoAbi]

IdleWorker ==
  [pc |-> "idle", job |-> NoJob, blockNumber |-> 0, balance |-> 0,
   bytecode |-> <<>>, error |-> ""]

IdleRequest ==
  [pc |-> "idle", address |-> NoAddress, network |-> "", abi |-> NoAbi,
   contract |-> 0, scan |-> 0, status |-> 0]

NoValue == [kind |-> "none", status |-> "", results |-> <<>>]

IdleLookup == [pc |-> "idle", id |-> 0, source |-> "", value |-> NoValue]

\* No chain snapshot request is under way.
IdleSnapshot == [pc |-> "idle", address |-> NoAddress, bytecode |-> <<>>, status |-> 0]

\* No call of analyzeBytecode other than the worker's is under way.
NoAnalysis ==
  [pc |-> "none", bytecode |-> <<>>, balanceWei |-> Undefined, abi |-> NoAbi,
   report |-> <<>>, abiFindings |-> <<>>, between |-> <<>>, again |-> <<>>]

Init ==
  /\ contracts = <<>>
  /\ scans = <<>>
  /\ queue = <<>>
  /\ position = 0
  /\ restarts = 0
  /\ worker = IdleWorker
  /\ requests = [r \in Requests |-> IdleRequest]
  /\ reportCache = EmptyMap
  /\ bytecodeCache = EmptyMap
  /\ lookup = IdleLookup
  /\ analysis = NoAnalysis
  /\ snapshot = IdleSnapshot

(***************************************************************************)
(* Submission: POST /contracts/:address/scan and createScanRequest         *)
(***************************************************************************)

\* The request is answered with an error status and goes no further.
Reject(r, status) ==
  requests' = [requests EXCEPT ![r] = [IdleRequest EXCEPT !.pc = "failed", !.status = status]]

\* The route handler up to createScanRequest's first await: the address
\* parameter is checked and normalized, then ensureContract upserts the
\* contract.
Submit(r, address, networkInput, abi, labels, metadata) ==
  /\ requests[r].pc = "idle"
  /\ \A q \in Requests : q < r => requests[q].pc # "idle"
  /\ LET route == normalizeAddress(address)
         \* createScanRequest normalizes what the route has normalized
         n == IF route.threw THEN route ELSE normalizeAddress(route.value)
         network == IF networkInput = "" THEN "mainnet" ELSE networkInput
     IN
       \/ /\ AddressFalsy(address)
          /\ Reject(r, 400)
          /\ UNCHANGED contracts
       \/ /\ ~AddressFalsy(address)
          /\ n.threw
          /\ Reject(r, errorHandler(n.status))
          /\ UNCHANGED contracts
       \/ /\ ~AddressFalsy(address)
          /\ ~n.threw
          /\ LET e == ensureContract(contracts, n.value, network, labels, metadata)
             IN  /\ contracts' = e.contracts
                 /\ requests' = [requests EXCEPT ![r] =
                                   [IdleRequest EXCEPT !.pc = "dedup", !.address = n.value,
                                                       !.network = network, !.abi = abi,
                                                       !.contract = e.id]]
       \/ \* findOneAndUpdate rejects
          /\ ~AddressFalsy(address)
          /\ ~n.threw
          /\ Reject(r, 500)
          /\ UNCHANGED contracts
  /\ UNCHANGED <<scans, queue, position,
                 restarts, worker, reportCache, bytecodeCache, lookup, analysis, snapshot>>

\* The request has been answered: what it returned is kept, its arguments
\* are not.
Answered(req, pc, scanId, status) ==
  [IdleRequest EXCEPT !.pc = pc, !.contract = req.contract, !.scan = scanId,
                      !.status = status]

\* const existing = await ScanModel.findOne(...); if (existing) return existing
Dedup(r) ==
  /\ requests[r].pc = "dedup"
  /\ LET existing == FindInFlight(scans, requests[r].contract)
     IN
       \/ /\ existing # 0
          /\ requests' = [requests EXCEPT ![r] = Answered(@, "done", existing, 202)]
       \/ /\ existing = 0
          /\ requests' = [requests EXCEPT ![r].pc = "create"]
       \/ \* the query rejects
          /\ requests' = [requests EXCEPT ![r] = Answered(@, "failed", 0, 500)]
  /\ UNCHANGED <<contracts, scans, queue, position,
                 restarts, worker, reportCache, bytecodeCache, lookup, analysis, snapshot>>

\* const scan = await ScanModel.create({contract, status: "pending", abi?})
Create(r) ==
  /\ requests[r].pc = "create"
  /\ \/ /\ scans' = Append(scans, NewScan(requests[r].contract, requests[r].abi))
        /\ requests' = [requests EXCEPT ![r].pc = "send", ![r].scan = Len(scans) + 1]
     \/ \* the insert rejects
        /\ requests' = [requests EXCEPT ![r] = Answered(@, "failed", 0, 500)]
        /\ UNCHANGED scans
  /\ UNCHANGED <<contracts, queue, position,
                 restarts, worker, reportCache, bytecodeCache, lookup, analysis, snapshot>>

\* The ScanJobPayload createScanRequest builds.
Payload(req) ==
  [scanId |-> req.scan, contractId |-> req.contract, address |-> req.address,
   network |-> req.network, abi |-> req.abi]

\* A message that carries the payload under the scan's id as its key.
MessageKeyedByScan(req) == [key |-> req.scan, value |-> Payload(req)]

\* The message createScanRequest sends: {key: payload.contractId,
\* value: JSON.stringify(payload)}.
Message(req) == [key |-> req.contract, value |-> Payload(req)]

\* A send that gives the scan up when it fails: the scan is marked failed.
SendOrFailScan(r) ==
  /\ requests[r].pc = "send"
  /\ \/ /\ queue' = Append(queue, Message(requests[r]))
        /\ requests' = [requests EXCEPT ![r] = Answered(@, "done", @.scan, 202)]
        /\ UNCHANGED scans
     \/ /\ requests' = [requests EXCEPT ![r] = Answered(@, "failed", @.scan, 500)]
        /\ scans' = updateScanStatus(scans, requests[r].scan, "failed", <<>>, "queue")
        /\ UNCHANGED queue
  /\ UNCHANGED <<contracts, position,
                 restarts, worker, reportCache, bytecodeCache, lookup, analysis, snapshot>>

\* await producer.send(...); return scan
Send(r) ==
  /\ requests[r].pc = "send"
  /\ \/ /\ queue' = Append(queue, Message(requests[r]))
        /\ requests' = [requests EXCEPT ![r] = Answered(@, "done", @.scan, 202)]
     \/ \* the send rejects
        /\ requests' = [requests EXCEPT ![r] = Answered(@, "failed", @.scan, 500)]
        /\ UNCHANGED queue
  /\ UNCHANGED <<contracts, scans, position,
                 restarts, worker, reportCache, bytecodeCache, lookup, analysis, snapshot>>

(***************************************************************************)
(* The worker: eachMessage and processScanJob                              *)
(***************************************************************************)

\* The analysis input processScanJob builds and the report it gets back.
\* An analysis input that leaves a zero balance out: balanceWei is "" then.
AnalysedZeroAsEmpty(address, bytecode, balance, blockNumber, abi) ==
  analyzeBytecode(address, bytecode,
                  IF balance = 0 THEN Some(<<>>) ELSE Some(BalanceToString(balance)),
                  [def |-> TRUE, val |-> blockNumber], abi)

Analysed(address, bytecode, balance, blockNumber, abi) ==
  analyzeBytecode(address, bytecode, Some(BalanceToString(balance)),
                  [def |-> TRUE, val |-> blockNumber], abi)

\* The addresses a job can carry: what normalizeAddress returns.
JobAddresses ==
  {normalizeAddress(a).value : a \in {x \in RawAddresses : ~normalizeAddress(x).threw}}

\* analyzeBytecode is a function of its arguments: its reports, by argument.
Reports ==
  [address \in JobAddresses, bytecode \in Codes, balance \in Balances,
   blockNumber \in BlockNumbers, abi \in AbiInputs |->
     Analysed(address, bytecode, balance, blockNumber, abi)]

Report(w) == Reports[w.job.address, w.bytecode, w.balance, w.blockNumber, w.job.abi]

\* What cacheScanReport is given: {...report, status: "succeeded", completedAt}.
CacheEntry(report) ==
  [kind |-> "report", status |-> "succeeded", results |-> <<ScanResults(report)>>,
   error |-> ""]

\* An exception that leaves processScanJob without passing the catch clause.
Rethrow(message) == worker' = [IdleWorker EXCEPT !.error = message]

\* An exception inside the try block: control passes to the catch clause.
Catch(message) == worker' = [worker EXCEPT !.pc = "catch", !.error = message]

\* The values of the messages on the topic that createScanRequest did not
\* send: no value at all, and text that JSON.parse rejects.
NullValue == [null |-> TRUE]

Unparseable == [text |-> "{"]

\* message.value is there and JSON.parse returns a ScanJobPayload.
IsJob(message) == "scanId" \in DOMAIN message.value

\* A consumer that hands the next message over while the call for the one
\* before is still under way.
BeginWhileBusy ==
  /\ position < Len(queue)
  /\ position' = position + 1
  /\ scans' = updateScanStatus(scans, queue[position + 1].value.scanId, "running", <<>>, "")
  /\ worker' = [IdleWorker EXCEPT !.pc = "fetch", !.job = queue[position + 1].value]
  /\ UNCHANGED <<contracts, queue, restarts,
                 requests, reportCache, bytecodeCache, lookup, analysis, snapshot>>

\* eachMessage is handed the next message; processScanJob's first statement
\* writes status running, outside the try block.  When that write rejects,
\* eachMessage logs the error and the message is done with.
Begin ==
  /\ worker.pc = "idle"
  /\ position < Len(queue)
  /\ position' = position + 1
  /\ LET job == queue[position + 1].value
     IN  \/ /\ IsJob(queue[position + 1])
            /\ scans' = updateScanStatus(scans, job.scanId, "running", <<>>, "")
            /\ worker' = [IdleWorker EXCEPT !.pc = "fetch", !.job = job]
         \/ /\ IsJob(queue[position + 1])
            /\ worker' = IdleWorker
            /\ UNCHANGED scans
         \/ \* if (!message.value) return, or JSON.parse throws and is logged
            /\ ~IsJob(queue[position + 1])
            /\ worker' = IdleWorker
            /\ UNCHANGED scans
  /\ UNCHANGED <<contracts, queue, restarts,
                 requests, reportCache, bytecodeCache, lookup, analysis, snapshot>>

\* Promise.all([provider.getBlockNumber(), provider.getBalance(address)])
Fetch ==
  /\ worker.pc = "fetch"
  /\ \/ /\ \E blockNumber \in BlockNumbers, balance \in Balances :
             worker' = [worker EXCEPT !.pc = "cacheGet", !.blockNumber = blockNumber,
                                      !.balance = balance]
     \/ /\ Catch("chain")
  /\ UNCHANGED <<contracts, scans, queue, position,
                 restarts, requests, reportCache, bytecodeCache, lookup, analysis, snapshot>>

\* let bytecode = await getCachedBytecode(address); if (!bytecode) ...
CacheGet ==
  /\ worker.pc = "cacheGet"
  /\ LET cached == getCachedBytecode(bytecodeCache, worker.job.address)
         truthy == cached # <<>> /\ cached[1] # <<>>
     IN  \/ /\ truthy
            /\ worker' = [worker EXCEPT !.pc = "analyze", !.bytecode = cached[1]]
         \/ /\ ~truthy
            /\ worker' = [worker EXCEPT !.pc = "getCode"]
         \/ /\ Catch("cache")
  /\ UNCHANGED <<contracts, scans, queue, position,
                 restarts, requests, reportCache, bytecodeCache, lookup, analysis, snapshot>>

\* bytecode = await provider.getCode(address)
GetCode ==
  /\ worker.pc = "getCode"
  /\ \/ /\ \E code \in Codes :
             worker' = [worker EXCEPT !.pc = "cacheSet", !.bytecode = code]
     \/ /\ Catch("chain")
  /\ UNCHANGED <<contracts, scans, queue, position,
                 restarts, requests, reportCache, bytecodeCache, lookup, analysis, snapshot>>

\* await setCachedBytecode(address, bytecode)
CacheSet ==
  /\ worker.pc = "cacheSet"
  /\ \/ /\ bytecodeCache' = setCachedBytecode(bytecodeCache, worker.job.address, worker.bytecode)
        /\ worker' = [worker EXCEPT !.pc = "analyze"]
     \/ /\ worker.bytecode # <<>>
        /\ Catch("cache")
        /\ UNCHANGED bytecodeCache
  /\ UNCHANGED <<contracts, scans, queue, position,
                 restarts, requests, reportCache, lookup, analysis, snapshot>>

\* An analysis step that leaves the succeeded write to later: the report goes
\* to the cache while the scan document is still running.
AnalyzeBeforeWrite ==
  /\ worker.pc = "analyze"
  /\ IF Report(worker).threw
     THEN Catch("analysis")
     ELSE worker' = [worker EXCEPT !.pc = "cacheReport"]
  /\ UNCHANGED <<contracts, scans, queue, position,
                 restarts, requests, reportCache, bytecodeCache, lookup, analysis, snapshot>>

\* const report = analyzeBytecode(...); await updateScanStatus(id, "succeeded", ...)
Analyze ==
  /\ worker.pc = "analyze"
  /\ LET report == Report(worker)
     IN  \/ /\ IF report.threw
               THEN Catch("analysis") /\ UNCHANGED scans
               ELSE /\ scans' = updateScanStatus(scans, worker.job.scanId, "succeeded",
                                                 <<ScanResults(report)>>, "")
                    /\ worker' = [worker EXCEPT !.pc = "cacheReport"]
         \/ /\ ~report.threw
            /\ Catch("store")
            /\ UNCHANGED scans
  /\ UNCHANGED <<contracts, queue, position,
                 restarts, requests, reportCache, bytecodeCache, lookup, analysis, snapshot>>

\* A success path that writes the contract's risk before the report is cached.
CacheReportAfterRisk ==
  /\ worker.pc = "cacheReport"
  /\ contracts' = updateContractRisk(contracts, worker.job.contractId,
                                     Report(worker).riskScore, Report(worker).riskLevel,
                                     worker.job.scanId)
  /\ \/ /\ reportCache' = cacheScanReport(reportCache, worker.job.scanId,
                                          CacheEntry(Report(worker)))
        /\ worker' = [worker EXCEPT !.pc = "updateContract"]
     \/ /\ Catch("cache")
        /\ UNCHANGED reportCache
  /\ UNCHANGED <<scans, queue, position,
                 restarts, requests, bytecodeCache, lookup, analysis, snapshot>>

\* await cacheScanReport(scanId, {...report, status: "succeeded", completedAt})
CacheReport ==
  /\ worker.pc = "cacheReport"
  /\ \/ /\ reportCache' = cacheScanReport(reportCache, worker.job.scanId,
                                          CacheEntry(Report(worker)))
        /\ worker' = [worker EXCEPT !.pc = "updateContract"]
     \/ /\ Catch("cache")
        /\ UNCHANGED reportCache
  /\ UNCHANGED <<contracts, scans, queue, position,
                 restarts, requests, bytecodeCache, lookup, analysis, snapshot>>

\* await updateContractRisk(contractId, {riskScore, riskLevel, latestScan}),
\* after which processScanJob and eachMessage return.
UpdateContract ==
  /\ worker.pc = "updateContract"
  /\ \/ /\ contracts' = updateContractRisk(contracts, worker.job.contractId,
                                           Report(worker).riskScore, Report(worker).riskLevel,
                                           worker.job.scanId)
        /\ worker' = IdleWorker
     \/ /\ Catch("store")
        /\ UNCHANGED contracts
  /\ UNCHANGED <<scans, queue, position,
                 restarts, requests, reportCache, bytecodeCache, lookup, analysis, snapshot>>

\* A catch clause that sends the job again when its write of failed rejects.
CatchClauseRequeue ==
  /\ worker.pc = "catch"
  /\ \/ /\ scans' = updateScanStatus(scans, worker.job.scanId, "failed", <<>>, worker.error)
        /\ UNCHANGED queue
     \/ /\ queue' = Append(queue, [key |-> worker.job.contractId, value |-> worker.job])
        /\ UNCHANGED scans
  /\ worker' = IdleWorker
  /\ UNCHANGED <<contracts, position,
                 restarts, requests, reportCache, bytecodeCache, lookup, analysis, snapshot>>

\* catch (error) { await updateScanStatus(id, "failed", {error: message}) };
\* when this write rejects too, eachMessage logs it and returns.
CatchClause ==
  /\ worker.pc = "catch"
  /\ \/ /\ scans' = updateScanStatus(scans, worker.job.scanId, "failed", <<>>, worker.error)
     \/ /\ UNCHANGED scans
  /\ worker' = IdleWorker
  /\ UNCHANGED <<contracts, queue, position,
                 restarts, requests, reportCache, bytecodeCache, lookup, analysis, snapshot>>

\* The worker process stops (a crash, a SIGTERM, a rebalance) and a worker
\* starts again.  The consumer commits an offset only after eachMessage has
\* returned, and not at once: a restart that comes before the commit of the
\* last message handed out abandons whatever the worker was doing and has
\* that message delivered again.
Restart ==
  /\ restarts < MaxRestarts
  /\ position > 0
  /\ restarts' = restarts + 1
  /\ worker' = IdleWorker
  /\ position' = position - 1
  /\ UNCHANGED <<contracts, scans, queue, requests, reportCache, bytecodeCache, lookup, analysis, snapshot>>

\* The worker's steps when every write to the durable store goes through:
\* the write of running, the write of succeeded, updateContractRisk and the
\* write of failed do not reject.
DurableBegin == Begin /\ worker'.pc = "fetch"

DurableAnalyze == Analyze /\ (worker'.pc = "catch" => worker'.error = "analysis")

DurableUpdateContract == UpdateContract /\ worker'.pc = "idle"

DurableCatchClause == CatchClause /\ scans'[worker.job.scanId].status = "failed"

(***************************************************************************)
(* Redis expiry (SET ... EX cacheTtlSeconds)                               *)
(***************************************************************************)

ExpireReport(scanId) ==
  /\ scanId \in DOMAIN reportCache
  /\ reportCache' = MapDel(reportCache, scanId)
  /\ UNCHANGED <<contracts, scans, queue, position,
                 restarts, worker, requests, bytecodeCache, lookup, analysis, snapshot>>

ExpireBytecode(address) ==
  /\ address \in DOMAIN bytecodeCache
  /\ bytecodeCache' = MapDel(bytecodeCache, address)
  /\ UNCHANGED <<contracts, scans, queue, position,
                 restarts, worker, requests, reportCache, lookup, analysis, snapshot>>

(***************************************************************************)
(* The polling lookup: GET /scans/:scanId and getScanById                  *)
(***************************************************************************)

\* What ScanModel.findById answers with.
ScanValue(scan) ==
  [kind |-> "scan", status |-> scan.status, results |-> scan.results, error |-> scan.error]

\* const cached = await getCachedScanReport(scanId); if (cached) return cached
LookupCache(scanId) ==
  /\ lookup.pc = "idle"
  /\ LET cached == getCachedScanReport(reportCache, scanId)
     IN  \/ /\ cached # <<>>
            /\ lookup' = [pc |-> "done", id |-> scanId, source |-> "cache", value |-> cached[1]]
         \/ /\ cached = <<>>
            /\ lookup' = [IdleLookup EXCEPT !.pc = "store", !.id = scanId]
         \/ \* redis.get rejects
            /\ lookup' = [IdleLookup EXCEPT !.pc = "done", !.id = scanId,
                                            !.source = "cacheError"]
  /\ UNCHANGED <<contracts, scans, queue, position,
                 restarts, worker, requests, reportCache, bytecodeCache, analysis, snapshot>>

\* return ScanModel.findById(scanId).populate("contract").exec()
LookupStore ==
  /\ lookup.pc = "store"
  /\ \/ /\ lookup.id \in 1..Len(scans)
        /\ lookup' = [lookup EXCEPT !.pc = "done", !.source = "store",
                                    !.value = ScanValue(scans[lookup.id])]
     \/ /\ lookup.id \notin 1..Len(scans)
        /\ lookup' = [lookup EXCEPT !.pc = "done", !.source = "notfound"]
     \/ \* the query rejects
        /\ lookup' = [lookup EXCEPT !.pc = "done", !.source = "storeError"]
  /\ UNCHANGED <<contracts, scans, queue, position,
                 restarts, worker, requests, reportCache, bytecodeCache, analysis, snapshot>>

\* The response is sent.
LookupReturn ==
  /\ lookup.pc = "done"
  /\ lookup' = IdleLookup
  /\ UNCHANGED <<contracts, scans, queue, position,
                 restarts, worker, requests, reportCache, bytecodeCache, analysis, snapshot>>

(***************************************************************************)
(* The chain snapshot: GET /chain/contracts/:address and getContractState  *)
(***************************************************************************)

\* The request is answered.
SnapshotAnswer(status) == snapshot' = [snapshot EXCEPT !.pc = "done", !.status = status]

\* The route handler up to getContractState's first await: the address is
\* normalized and the block number, balance and transaction count are read.
SnapshotBegin(address) ==
  /\ snapshot.pc = "idle"
  /\ LET n == normalizeAddress(address)
     IN  \/ /\ AddressFalsy(address)
            /\ SnapshotAnswer(400)
         \/ /\ ~AddressFalsy(address)
            /\ n.threw
            /\ SnapshotAnswer(errorHandler(n.status))
         \/ /\ ~n.threw
            /\ snapshot' = [IdleSnapshot EXCEPT !.pc = "cacheGet", !.address = n.value]
         \/ \* a read of the chain rejects
            /\ ~n.threw
            /\ SnapshotAnswer(500)
  /\ UNCHANGED <<contracts, scans, queue, position, restarts, worker,
                 requests, reportCache, bytecodeCache, lookup, analysis>>

\* let bytecode = await getCachedBytecode(checksum); if (!bytecode) ...
SnapshotCacheGet ==
  /\ snapshot.pc = "cacheGet"
  /\ LET cached == getCachedBytecode(bytecodeCache, snapshot.address)
         truthy == cached # <<>> /\ cached[1] # <<>>
     IN  \/ /\ truthy
            /\ snapshot' = [snapshot EXCEPT !.pc = "done", !.bytecode = cached[1],
                                            !.status = 200]
         \/ /\ ~truthy
            /\ snapshot' = [snapshot EXCEPT !.pc = "getCode"]
         \/ SnapshotAnswer(500)
  /\ UNCHANGED <<contracts, scans, queue, position, restarts, worker,
                 requests, reportCache, bytecodeCache, lookup, analysis>>

\* bytecode = await provider.getCode(checksum)
SnapshotGetCode ==
  /\ snapshot.pc = "getCode"
  /\ \/ \E code \in Codes :
          snapshot' = [snapshot EXCEPT !.pc = "cacheSet", !.bytecode = code]
     \/ SnapshotAnswer(500)
  /\ UNCHANGED <<contracts, scans, queue, position, restarts, worker,
                 requests, reportCache, bytecodeCache, lookup, analysis>>

\* await setCachedBytecode(checksum, bytecode); return {..., bytecode, ...}
SnapshotCacheSet ==
  /\ snapshot.pc = "cacheSet"
  /\ \/ /\ bytecodeCache' = setCachedBytecode(bytecodeCache, snapshot.address,
                                              snapshot.bytecode)
        /\ SnapshotAnswer(200)
     \/ /\ snapshot.bytecode # <<>>
        /\ SnapshotAnswer(500)
        /\ UNCHANGED bytecodeCache
  /\ UNCHANGED <<contracts, scans, queue, position, restarts, worker,
                 requests, reportCache, lookup, analysis>>

\* The response has been sent; the next request may come.
SnapshotReturn ==
  /\ snapshot.pc = "done"
  /\ snapshot' = IdleSnapshot
  /\ UNCHANGED <<contracts, scans, queue, position, restarts, worker,
                 requests, reportCache, bytecodeCache, lookup, analysis>>

(***************************************************************************)
(* analyzeBytecode and analyzeAbi called on their own                      *)
(***************************************************************************)

\* PUSH32 (0x7f) followed by 32 bytes 0xff.
Push32Selfdestructs ==
  <<"0", "x", "7", "f", "f", "f", "f", "f", "f", "f", "f", "f", "f",
     "f", "f", "f", "f", "f", "f", "f", "f", "f", "f", "f", "f",
     "f", "f", "f", "f", "f", "f", "f", "f", "f", "f", "f", "f",
     "f", "f", "f", "f", "f", "f", "f", "f", "f", "f", "f", "f",
     "f", "f", "f", "f", "f", "f", "f", "f", "f", "f", "f", "f",
     "f", "f", "f", "f", "f", "f", "f">>

\* The bytecode arguments tried.
BytecodeInputs ==
  {
    \* no characters
    <<>>,
    \* an account without code
    <<"0", "x">>,
    \* DELEGATECALL, SELFDESTRUCT
    <<"0", "x", "f", "4", "f", "f">>,
    Push32Selfdestructs,
    \* PUSH1 and its byte
    <<"0", "x", "6", "0", "f", "f">>,
    \* PUSH1, its byte, SELFDESTRUCT
    <<"0", "x", "6", "0", "f", "f", "f", "f">>,
    \* PUSH3 and its 3 bytes
    <<"0", "x", "6", "2", "f", "f", "f", "f", "f", "f">>,
    \* PUSH4 and its 4 bytes
    <<"0", "x", "6", "3", "f", "f", "f", "f", "f", "f", "f", "f">>,
    \* CALLCODE without the 0x prefix
    <<"f", "2">>,
    \* upper-case digits
    <<"0", "x", "F", "4", "F", "F">>,
    \* SSTORE twice
    <<"0", "x", "5", "5", "5", "5">>,
    \* PUSH32 cut short
    <<"0", "x", "7", "f", "f", "f">>,
    \* every catalogued opcode once
    <<"0", "x", "3", "2", "5", "5", "f", "0", "f", "1", "f", "2", "f",
       "4", "f", "5", "f", "a", "f", "f", "3", "f">>,
    \* STOP
    <<"0", "x", "0", "0">>,
    \* ORIGIN
    <<"0", "x", "3", "2">>,
    \* an odd number of digits
    <<"0", "x", "f", "4", "f">>,
    \* PUSH1 and its byte, twice, then SSTORE
    <<"0", "x", "6", "0", "f", "f", "6", "0", "f", "f", "5", "5">>,
    \* SELFDESTRUCT, ORIGIN, then PUSH32 and its 32 bytes
    <<"0", "x", "f", "f", "3", "2">> \o Slice(Push32Selfdestructs, 2, Len(Push32Selfdestructs))
  }

\* The balanceWei arguments tried: undefined, the empty string, "0".
BalanceInputs == {Undefined, Some(<<>>), Some(<<"0">>)}

\* The abi arguments tried.
AbiArguments ==
  {
    NoAbi,
    MalformedAbi,
    AbiOf(<<>>),
    AbiOf(<< [type |-> "function", name |-> <<"m", "i", "n", "t">>] >>),
    AbiOf(<< [type |-> "function", name |-> <<"O", "w", "n", "e", "r">>],
             [type |-> "event", name |-> <<"t", "r", "a", "n", "s", "f", "e", "r">>] >>),
    AbiOf(<< [type |-> "function", name |-> <<"p", "a", "u", "s", "e">>],
             [type |-> "function", name |-> <<"u", "n", "p", "a", "u", "s", "e">>],
             [type |-> "function", name |-> <<"u", "p", "g", "r", "a", "d", "e">>] >>),
    AbiOf(<< [type |-> "function", name |-> <<"t", "r", "a", "n", "s", "f", "e", "r", "O", "w", "n", "e", "r", "s", "h", "i", "p">>] >>),
    AbiOf(<< [type |-> "function", name |-> <<"b", "a", "l", "a", "n", "c", "e", "O", "f">>] >>),
    AbiOf(<< [type |-> "function", name |-> <<"p", "a", "u", "s", "e">>],
             [type |-> "function", name |-> <<"u", "n", "p", "a", "u", "s", "e">>] >>)
  }

AnalysisInputs ==
  {[NoAnalysis EXCEPT !.pc = "called", !.bytecode = b, !.balanceWei = w, !.abi = a] :
     b \in BytecodeInputs, w \in BalanceInputs, a \in AbiArguments}

InitAnalyzer ==
  /\ contracts = <<>>
  /\ scans = <<>>
  /\ queue = <<>>
  /\ position = 0
  /\ restarts = 0
  /\ worker = IdleWorker
  /\ requests = [r \in Requests |-> IdleRequest]
  /\ reportCache = EmptyMap
  /\ bytecodeCache = EmptyMap
  /\ lookup = IdleLookup
  /\ analysis \in AnalysisInputs
  /\ snapshot = IdleSnapshot

\* analyzeBytecode({address, bytecode, balanceWei, abi}) returns or throws.
CallAnalyzeBytecode ==
  /\ analysis.pc = "called"
  /\ analysis' = [analysis EXCEPT
                    !.pc = "returned",
                    !.report = << analyzeBytecode(Address("lower", "aa", FALSE), analysis.bytecode,
                                                  analysis.balanceWei, UndefinedNum,
                                                  analysis.abi) >>]
  /\ UNCHANGED <<contracts, scans, queue, position, restarts, worker,
                 requests, reportCache, bytecodeCache, lookup, snapshot>>

\* analyzeAbi(abi) returns.
CallAnalyzeAbi ==
  /\ analysis.pc = "called"
  /\ analysis' = [analysis EXCEPT !.pc = "scanned", !.abiFindings = analyzeAbi(analysis.abi)]
  /\ UNCHANGED <<contracts, scans, queue, position, restarts, worker,
                 requests, reportCache, bytecodeCache, lookup, snapshot>>

\* The arguments of the calls that follow the first one.
RepeatBytecodes ==
  {
    <<"f", "4", "f", "f">>,
    <<"0", "x", "F", "4", "F", "F">>,
    <<"0", "x", "f", "4", "f", "e">>,
    <<"0", "x">>,
    <<"0", "x", "f", "4", "f">>,
    \* DELEGATECALL twice, SELFDESTRUCT
    <<"0", "x", "f", "4", "f", "4", "f", "f">>,
    \* SSTORE once
    <<"0", "x", "5", "5">>
  }

RepeatBalances == {Undefined, Some(<<"0">>)}

RepeatBlockNumbers == {UndefinedNum, Some(100)}

RepeatAbis == {NoAbi, AbiOf(<< [type |-> "function", name |-> <<"O", "w", "n", "e", "r">>] >>)}

\* A call of analyzeBytecode with its return value.
Run(bytecode, balanceWei, blockNumber, abi) ==
  [bytecode |-> bytecode, balanceWei |-> balanceWei, blockNumber |-> blockNumber, abi |-> abi,
   report |-> analyzeBytecode(Address("lower", "aa", FALSE), bytecode, balanceWei,
                              blockNumber, abi)]

\* A later call whose findings array is the one the call before it filled.
RunKeepingFindings(bytecode, balanceWei, blockNumber, abi) ==
  LET run      == Run(bytecode, balanceWei, blockNumber, abi)
      previous == IF analysis.between # <<>> THEN analysis.between[1].report
                  ELSE analysis.report[1]
  IN  IF run.report.threw \/ previous.threw THEN run
      ELSE [run EXCEPT !.report.findings = previous.findings \o @]

\* analyzeBytecode is called on something else after the first call.
CallAnalyzeBetween ==
  /\ analysis.pc = "returned"
  /\ \E bytecode \in {<<"0", "x", "f", "4", "f", "f">>, <<"0", "x", "5", "5", "5", "5">>,
                      <<"0", "x", "f", "4", "f">>},
        abi \in {NoAbi, MalformedAbi} :
       analysis' = [analysis EXCEPT
                      !.pc = "between",
                      !.between = << Run(bytecode, Some(<<"0">>), UndefinedNum, abi) >>]
  /\ UNCHANGED <<contracts, scans, queue, position, restarts, worker,
                 requests, reportCache, bytecodeCache, lookup, snapshot>>

\* The same call with the findings array kept from the call before.
CallAnalyzeAgainKeepingFindings ==
  /\ analysis.pc \in {"returned", "between"}
  /\ \/ analysis' = [analysis EXCEPT
                       !.pc = "again",
                       !.again = << RunKeepingFindings(analysis.bytecode, analysis.balanceWei,
                                                       UndefinedNum, analysis.abi) >>]
     \/ \E bytecode \in RepeatBytecodes, balanceWei \in RepeatBalances,
           blockNumber \in RepeatBlockNumbers, abi \in RepeatAbis :
          analysis' = [analysis EXCEPT
                         !.pc = "again",
                         !.again = << RunKeepingFindings(bytecode, balanceWei, blockNumber, abi) >>]
  /\ UNCHANGED <<contracts, scans, queue, position, restarts, worker,
                 requests, reportCache, bytecodeCache, lookup, snapshot>>

\* analyzeBytecode is called once more: with the arguments of the first call,
\* or with others.
CallAnalyzeAgain ==
  /\ analysis.pc \in {"returned", "between"}
  /\ \/ analysis' = [analysis EXCEPT
                       !.pc = "again",
                       !.again = << Run(analysis.bytecode, analysis.balanceWei,
                                        UndefinedNum, analysis.abi) >>]
     \/ \E bytecode \in RepeatBytecodes, balanceWei \in RepeatBalances,
           blockNumber \in RepeatBlockNumbers, abi \in RepeatAbis :
          analysis' = [analysis EXCEPT
                         !.pc = "again",
                         !.again = << Run(bytecode, balanceWei, blockNumber, abi) >>]
  /\ UNCHANGED <<contracts, scans, queue, position, restarts, worker,
                 requests, reportCache, bytecodeCache, lookup, snapshot>>

(***************************************************************************)
(* The specifications                                                      *)
(***************************************************************************)

\* POST /contracts/:address/scan, step by step.
Submissions ==
  \/ \E r \in Requests, address \in RawAddresses, networkInput \in NetworkInputs,
        abi \in AbiInputs :
       Submit(r, address, networkInput, abi, <<>>, <<>>)
  \/ \E r \in Requests : Dedup(r)
  \/ \E r \in Requests : Create(r)
  \/ \E r \in Requests : Send(r)

\* eachMessage and processScanJob, step by step.
Worker ==
  \/ Begin
  \/ Fetch
  \/ CacheGet
  \/ GetCode
  \/ CacheSet
  \/ Analyze
  \/ CacheReport
  \/ UpdateContract
  \/ CatchClause

\* GET /scans/:scanId, step by step.
Polling ==
  \/ \E scanId \in 1..MaxRequests : LookupCache(scanId)
  \/ LookupStore
  \/ LookupReturn

\* Submissions, the worker, worker restarts and Redis expiry.
Next ==
  \/ Submissions
  \/ Worker
  \/ Restart
  \/ \E scanId \in 1..MaxRequests : ExpireReport(scanId)
  \/ \E account \in Accounts : ExpireBytecode(Address("lower", account, FALSE))

Spec == Init /\ [][Next]_vars

\* Submissions, a worker that is never restarted, expiry of cached reports,
\* and a client that polls.
NextLookup ==
  \/ Submissions
  \/ Worker
  \/ \E scanId \in 1..MaxRequests : ExpireReport(scanId)
  \/ Polling

SpecLookup == Init /\ [][NextLookup]_vars

\* The labels and metadata of a request body: none, or one of two.
LabelInputs == {<<>>, <<"defi">>, <<"proxy">>}

MetadataInputs ==
  {<<>>, << [key |-> "team", value |-> "core"] >>, << [key |-> "audit", value |-> "2024"] >>}

\* The address parameters of the requests that carry labels and metadata.
LabelledAddresses ==
  { Address("empty", "", FALSE), Address("garbage", "", FALSE),
    Address("lower", "aa", FALSE), Address("checksum", "aa", FALSE) }

\* POST /contracts/:address/scan with labels and metadata in the body.
LabelledSubmissions ==
  \/ \E r \in Requests, address \in LabelledAddresses, labels \in LabelInputs,
        metadata \in MetadataInputs :
       Submit(r, address, "", SampleAbi, labels, metadata)
  \/ \E r \in Requests : Dedup(r)
  \/ \E r \in Requests : Create(r)
  \/ \E r \in Requests : Send(r)

\* Submissions that label the contract, and a worker that is never restarted.
NextContracts ==
  \/ LabelledSubmissions
  \/ Worker

SpecContracts == Init /\ [][NextContracts]_vars

\* GET /chain/contracts/:address, step by step.
Snapshots ==
  \/ \E address \in RawAddresses : SnapshotBegin(address)
  \/ SnapshotCacheGet
  \/ SnapshotGetCode
  \/ SnapshotCacheSet
  \/ SnapshotReturn

\* Submissions, a worker that is never restarted, expiry of cached bytecode,
\* and chain snapshot requests.
NextSnapshot ==
  \/ Submissions
  \/ Worker
  \/ \E account \in Accounts : ExpireBytecode(Address("lower", account, FALSE))
  \/ Snapshots

SpecSnapshot == Init /\ [][NextSnapshot]_vars

\* The balances provider.getBalance is taken to answer with, in wei.
ChainBalances == {0, 7, 15}

\* The worker about to call analyzeBytecode, for every bytecode, balance and
\* ABI tried.
WorkerInputs ==
  {[IdleWorker EXCEPT !.pc = "analyze", !.job.scanId = 1, !.job.contractId = 1,
                      !.job.address = Address("lower", "aa", FALSE), !.job.abi = abi,
                      !.bytecode = bytecode, !.balance = balance, !.blockNumber = 100] :
     bytecode \in BytecodeInputs, balance \in ChainBalances, abi \in AbiArguments}

InitWorkerAnalysis ==
  /\ contracts = <<>>
  /\ scans = <<>>
  /\ queue = <<>>
  /\ position = 0
  /\ restarts = 0
  /\ worker \in WorkerInputs
  /\ requests = [r \in Requests |-> IdleRequest]
  /\ reportCache = EmptyMap
  /\ bytecodeCache = EmptyMap
  /\ lookup = IdleLookup
  /\ analysis = NoAnalysis
  /\ snapshot = IdleSnapshot

\* const report = analyzeBytecode(analysisInput), with the input kept beside
\* the report.
WorkerAnalysis ==
  /\ worker.pc = "analyze"
  /\ analysis' = [NoAnalysis EXCEPT
                    !.pc = "returned",
                    !.bytecode = worker.bytecode,
                    !.balanceWei = Some(BalanceToString(worker.balance)),
                    !.abi = worker.job.abi,
                    !.report = << Analysed(worker.job.address, worker.bytecode, worker.balance,
                                           worker.blockNumber, worker.job.abi) >>]
  /\ worker' = [worker EXCEPT !.pc = "analysed"]
  /\ UNCHANGED <<contracts, scans, queue, position, restarts,
                 requests, reportCache, bytecodeCache, lookup, snapshot>>

\* The worker's call of the analyzer on its own.
SpecWorkerAnalysis == InitWorkerAnalysis /\ [][WorkerAnalysis]_vars

\* The walk loop of analyzeBytecode, one iteration at a time.  The hex
\* strings walked are the digits of every bytecode tried and every string of
\* at most MaxHexLen of the digits 0, 5, 6, 7 and f.
MaxHexLen == 4

WalkDigits == {"0", "5", "6", "7", "f"}

WalkInputs ==
  {Slice(normalizeBytecode(b), 2, Len(normalizeBytecode(b))) : b \in BytecodeInputs}
    \cup UNION {[1..n -> WalkDigits] : n \in 0..MaxHexLen}

\* The loop's variables before the iteration that reads position i.
WalkState(pc, hex, i, totalOpcodes, unique, hits) ==
  [pc |-> pc, hex |-> hex, i |-> i, totalOpcodes |-> totalOpcodes, unique |-> unique,
   hits |-> hits]

InitWalk ==
  /\ contracts = <<>>
  /\ scans = <<>>
  /\ queue = <<>>
  /\ position = 0
  /\ restarts = 0
  /\ worker = IdleWorker
  /\ requests = [r \in Requests |-> IdleRequest]
  /\ reportCache = EmptyMap
  /\ bytecodeCache = EmptyMap
  /\ lookup = IdleLookup
  /\ \E hex \in WalkInputs : analysis = WalkState("walking", hex, 0, 0, {}, EmptyHits)
  /\ snapshot = IdleSnapshot

\* One iteration: the loop condition i < hex.length holds; the opcode is
\* read, counted and looked up, and i is moved on.
WalkIteration ==
  /\ analysis.pc = "walking"
  /\ analysis.i < Len(analysis.hex)
  /\ analysis' =
       WalkState("walking", analysis.hex,
                 Advance(analysis.i, ParseInt16(Slice(analysis.hex, analysis.i, analysis.i + 2))),
                 analysis.totalOpcodes + 1,
                 analysis.unique \cup {Slice(analysis.hex, analysis.i, analysis.i + 2)},
                 RecordHit(analysis.hits,
                           CatalogIndex(Slice(analysis.hex, analysis.i, analysis.i + 2))))
  /\ UNCHANGED <<contracts, scans, queue, position, restarts, worker,
                 requests, reportCache, bytecodeCache, lookup, snapshot>>

\* The loop condition fails: the loop is left.
WalkExit ==
  /\ analysis.pc = "walking"
  /\ ~(analysis.i < Len(analysis.hex))
  /\ analysis' = [analysis EXCEPT !.pc = "walked"]
  /\ UNCHANGED <<contracts, scans, queue, position, restarts, worker,
                 requests, reportCache, bytecodeCache, lookup, snapshot>>

NextWalk ==
  \/ WalkIteration
  \/ WalkExit

\* The loop is synchronous code: it takes its next step while it has one.
SpecWalk == InitWalk /\ [][NextWalk]_vars /\ WF_vars(NextWalk)

\* How many messages that are no jobs are put on the topic.
MaxForeign == 1

ForeignMessages(q) == {i \in 1..Len(q) : ~IsJob(q[i])}

\* A message without a value, or with a value that is no JSON, arrives on the
\* topic.
Publish(value) ==
  /\ Cardinality(ForeignMessages(queue)) < MaxForeign
  /\ queue' = Append(queue, [key |-> 0, value |-> value])
  /\ UNCHANGED <<contracts, scans, position, restarts, worker,
                 requests, reportCache, bytecodeCache, lookup, analysis, snapshot>>

\* Submissions, a worker that is never restarted, and a topic that also
\* carries messages that are no jobs.
NextMessages ==
  \/ Submissions
  \/ Worker
  \/ \E value \in {NullValue, Unparseable} : Publish(value)

\* consumer.run keeps calling eachMessage while a message is waiting.
SpecMessages == Init /\ [][NextMessages]_vars /\ WF_vars(Worker)

\* The worker with a durable store that takes every write.
DurableWorker ==
  \/ DurableBegin
  \/ Fetch
  \/ CacheGet
  \/ GetCode
  \/ CacheSet
  \/ DurableAnalyze
  \/ CacheReport
  \/ DurableUpdateContract
  \/ DurableCatchClause

NextDurable ==
  \/ Submissions
  \/ DurableWorker

\* consumer.run keeps calling eachMessage while a message is waiting, and an
\* awaited step of processScanJob settles: the worker is never restarted and
\* does not stop while it has a step to take.
SpecDurable == Init /\ [][NextDurable]_vars /\ WF_vars(DurableWorker)

\* The analyzer on its own.
NextAnalyzer ==
  \/ CallAnalyzeBytecode
  \/ CallAnalyzeAbi
  \/ CallAnalyzeBetween
  \/ CallAnalyzeAgain

SpecAnalyzer == InitAnalyzer /\ [][NextAnalyzer]_vars

(***************************************************************************)
(* Properties of the scan lifecycle                                        *)
(***************************************************************************)

NonTerminal == {"pending", "running"}

Terminal == {"succeeded", "failed"}

ScanIds == 1..Len(scans)

InFlightOf(contractId) ==
  {s \in ScanIds : scans[s].contract = contractId /\ scans[s].status \in NonTerminal}

\* C1: in every reachable state each contract has at most one scan whose
\* status is pending or running.
C1_AtMostOneInFlight ==
  \A c \in 1..Len(contracts) : Cardinality(InFlightOf(c)) <= 1

\* C2: when createScanRequest's query finds the contract with a pending or
\* running scan, the request is answered with the identifier of such a scan
\* of that contract and no scan is created or queued; when every scan of the
\* contract is terminal the request goes on to create, and create adds a
\* pending scan of the contract under an identifier no scan had before.
C2_DedupOrCreate ==
  [][\A r \in Requests :
       /\ (requests[r].pc = "dedup" /\ requests'[r].pc \notin {"dedup", "failed"})
            => IF InFlightOf(requests[r].contract) # {}
               THEN /\ requests'[r].pc = "done"
                    /\ requests'[r].scan \in InFlightOf(requests[r].contract)
                    /\ scans' = scans
                    /\ queue' = queue
               ELSE requests'[r].pc = "create"
       /\ (requests[r].pc = "create" /\ requests'[r].pc = "send")
            => /\ requests'[r].scan \notin ScanIds
               /\ requests'[r].scan \in 1..Len(scans')
               /\ SubSeq(scans', 1, Len(scans)) = scans
               /\ scans'[requests'[r].scan].contract = requests[r].contract
               /\ scans'[requests'[r].scan].status = "pending"]_vars

\* Two submissions were answered with the same scan.
C2_Witness ==
  \E r1, r2 \in Requests :
    /\ r1 # r2
    /\ requests[r1].pc = "done" /\ requests[r2].pc = "done"
    /\ requests[r1].scan = requests[r2].scan
    /\ requests[r1].scan \in ScanIds

StatusRank(status) ==
  CASE status = "pending" -> 0
    [] status = "running" -> 1
    [] OTHER -> 2

\* C3: a scan's status only moves forward along pending, running,
\* (succeeded | failed): no step sets it to an earlier status, and a scan
\* becomes succeeded or failed only from running.
C3_StatusMovesForward ==
  [][\A s \in ScanIds :
       /\ StatusRank(scans'[s].status) >= StatusRank(scans[s].status)
       /\ (scans'[s].status \in Terminal /\ scans[s].status \notin Terminal)
            => scans[s].status = "running"]_vars

\* C4: once a scan's status is succeeded or failed, its status, results and
\* error message never change.
C4_TerminalIsFinal ==
  [][\A s \in ScanIds : scans[s].status \in Terminal => scans'[s] = scans[s]]_vars

\* C5: whenever a scan's status is failed, the report cache holds no entry
\* for that scan.
C5_FailedNotCached ==
  \A s \in ScanIds : scans[s].status = "failed" => s \notin DOMAIN reportCache

\* C6: whenever the report cache holds an entry for a scan, the entry's
\* riskScore and riskLevel are those of the scan document with that id.
C6_CacheAgreesWithStore ==
  \A s \in DOMAIN reportCache :
    /\ s \in ScanIds
    /\ scans[s].results # <<>>
    /\ reportCache[s].results[1].riskScore = scans[s].results[1].riskScore
    /\ reportCache[s].results[1].riskLevel = scans[s].results[1].riskLevel

\* C7: a lookup whose cache read finds an entry returns that entry as it is
\* and goes no further; the store is read only after a cache read that found
\* nothing, and the answer is then the scan document.
C7_CacheFirst ==
  [][/\ (lookup.pc = "idle" /\ lookup'.pc # "idle" /\ lookup'.source # "cacheError")
          => IF lookup'.id \in DOMAIN reportCache
             THEN /\ lookup'.pc = "done"
                  /\ lookup'.source = "cache"
                  /\ lookup'.value = reportCache[lookup'.id]
             ELSE lookup'.pc = "store"
     /\ (lookup'.source \in {"store", "notfound", "storeError"} /\ lookup.source = "")
          => lookup.pc = "store"
     /\ (lookup.pc = "store" /\ lookup'.source = "store")
          => /\ lookup.id \in ScanIds
             /\ lookup'.value = ScanValue(scans[lookup.id])]_vars

\* A lookup was answered from the cache with the entry cached for its id.
C7_Witness ==
  /\ lookup.pc = "done"
  /\ lookup.source = "cache"
  /\ lookup.id \in DOMAIN reportCache
  /\ lookup.value = reportCache[lookup.id]

\* C8: a failing read of the report cache fails no lookup of an existing
\* scan: such a lookup ends in an error only when the read of the durable
\* store failed.
C8_CacheFailureFallsBack ==
  (lookup.pc = "done" /\ lookup.id \in ScanIds) => lookup.source # "cacheError"

\* C9: a cache failure alone never turns a scan into failed: no scan is
\* failed with an error raised by a read or write of a cache.
C9_CacheFailureHarmless ==
  \A s \in ScanIds : ~(scans[s].status = "failed" /\ scans[s].error = "cache")

MalformedAddresses == {a \in RawAddresses : a.form \in {"empty", "garbage", "badsum"}}

\* C10: a submission with a malformed address is answered 400 and leaves the
\* contract store, the scan store, the queue and both caches as they were.
C10_MalformedRejected ==
  [][\A r \in Requests, address \in MalformedAddresses,
        networkInput \in NetworkInputs, abi \in AbiInputs :
       Submit(r, address, networkInput, abi, <<>>, <<>>)
         => /\ requests'[r].pc = "failed"
            /\ requests'[r].status = 400
            /\ UNCHANGED <<contracts, scans, queue, reportCache, bytecodeCache>>]_vars

\* A submission was answered 400 with nothing stored.
C10_Witness ==
  \E r \in Requests :
    /\ requests[r].pc = "failed"
    /\ requests[r].status = 400
    /\ requests[r].contract = 0

\* C11: when the queue send of a submission fails, the submission is
\* answered with an error, and the scan it created is in the scan store with
\* status pending and in no message of the queue.
C11_SendFailureLeavesPending ==
  \A r \in Requests :
    (requests[r].pc = "failed" /\ requests[r].scan # 0)
      => /\ requests[r].status = 500
         /\ requests[r].scan \in ScanIds
         /\ scans[requests[r].scan].status = "pending"
         /\ scans[requests[r].scan].error = ""
         /\ \A i \in 1..Len(queue) : queue[i].value.scanId # requests[r].scan

\* A submission failed at the send, after its scan was created.
C11_Witness ==
  \E r \in Requests :
    /\ requests[r].pc = "failed"
    /\ requests[r].scan \in ScanIds
    /\ scans[requests[r].scan].status = "pending"

\* C12: when a chain read or the analysis threw, the catch clause leaves the
\* scan failed with the error message recorded and without a risk score,
\* risk level, findings or opcode summary, and it neither queues the job
\* again nor hands it to the worker again.
C12_ChainFailureFailsScan ==
  [][(/\ worker.pc = "catch"
      /\ worker.error \in {"chain", "analysis"}
      /\ worker'.pc = "idle"
      /\ restarts' = restarts
      /\ scans' # scans)
       => /\ scans'[worker.job.scanId].status = "failed"
          /\ scans'[worker.job.scanId].error = worker.error
          /\ scans'[worker.job.scanId].results = <<>>
          /\ queue' = queue
          /\ position' = position]_vars

(***************************************************************************)
(* Properties of the analyzer                                              *)
(***************************************************************************)

\* The report of the call, once it has returned one.
HasReport == analysis.pc = "returned" /\ ~analysis.report[1].threw

TheReport == analysis.report[1]

\* The hexadecimal digits of the bytecode argument: lower case, no 0x prefix.
HexOf(bytecode) ==
  Slice(normalizeBytecode(bytecode), 2, Len(normalizeBytecode(bytecode)))

\* The instructions of a bytecode, read from digit i on: one byte each, the
\* n = opcode - 0x5f bytes after a push opcode 0x60..0x7f left out.
RECURSIVE Instructions(_, _)
Instructions(hex, i) ==
  IF i >= Len(hex) THEN <<>>
  ELSE LET byte    == Slice(hex, i, i + 2)
           value   == ParseInt16(byte)
           operand == IF value >= 96 /\ value <= 127 THEN value - 95 ELSE 0
       IN  <<byte>> \o Instructions(hex, i + 2 + 2 * operand)

CountOf(seq, x) == Cardinality({i \in 1..Len(seq) : seq[i] = x})

FindingIds(findings) == {findings[i].id : i \in 1..Len(findings)}

\* C13: the bytes that follow a push opcode are no instructions: the report
\* counts the instructions only, records a dangerous-opcode hit for each
\* catalogued instruction and for nothing else, and has an opcode finding
\* exactly for the catalogued opcodes among the instructions; PUSH32 followed
\* by 32 bytes 0xff is one instruction and gives no SELFDESTRUCT finding.
C13_PushDataSkipped ==
  HasReport =>
    LET instructions == Instructions(HexOf(analysis.bytecode), 0)
        summary      == TheReport.opcodeSummary
    IN  /\ summary.totalOpcodes = Len(instructions)
        /\ \A e \in 1..Len(opcodeMetadata) :
             LET count == CountOf(instructions, opcodeMetadata[e].key)
                 name  == opcodeMetadata[e].name
             IN  /\ (name \in DOMAIN summary.dangerousOpcodeHits) = (count > 0)
                 /\ count > 0 => summary.dangerousOpcodeHits[name] = count
                 /\ (opcodeMetadata[e].id \in FindingIds(TheReport.findings)) = (count > 0)
        /\ analysis.bytecode = Push32Selfdestructs
             => /\ summary.totalOpcodes = 1
                /\ "selfdestruct-usage" \notin FindingIds(TheReport.findings)

\* The report for PUSH32 and its 32 bytes 0xff has been returned.
C13_Witness ==
  /\ HasReport
  /\ analysis.bytecode = Push32Selfdestructs
  /\ TheReport.opcodeSummary.totalOpcodes = 1

EmptyBytecodes == { <<>>, <<"0", "x">> }

EmptyBytecodeJobSucceeds ==
  [][(worker.pc = "analyze" /\ worker.bytecode \in EmptyBytecodes /\ worker'.pc # "analyze"
      /\ restarts' = restarts)
       => /\ worker'.error # "analysis"
          /\ worker'.pc = "cacheReport"
               => /\ scans'[worker.job.scanId].status = "succeeded"
                  /\ scans'[worker.job.scanId].results[1].riskScore = 0
                  /\ scans'[worker.job.scanId].results[1].riskLevel = "low"
                  /\ Len(scans'[worker.job.scanId].results[1].findings) = 1]_vars

WeightOf(severity) ==
  CASE severity = "low" -> 1
    [] severity = "medium" -> 3
    [] severity = "high" -> 6
    [] severity = "critical" -> 10

\* The sum of the weights of findings[1..n], each finding counted once.
RECURSIVE WeightSum(_, _)
WeightSum(findings, n) ==
  IF n = 0 THEN 0 ELSE WeightSum(findings, n - 1) + WeightOf(findings[n].severity)

\* C15 as stated: in every report, riskScore is the sum of the severity
\* weights of the report's findings.
C15_ScoreIsWeightSum ==
  HasReport => TheReport.riskScore = WeightSum(TheReport.findings, Len(TheReport.findings))

\* C15 amended: in every report for a bytecode that is not empty, riskScore
\* is the sum of the severity weights of the report's findings, each counted
\* once whatever its occurrence count; the report for an empty bytecode has
\* riskScore 0 and one finding of severity low.
C15_ScoreIsWeightSumUnlessEmpty ==
  HasReport =>
    IF HexOf(analysis.bytecode) = <<>>
    THEN /\ TheReport.riskScore = 0
         /\ WeightSum(TheReport.findings, Len(TheReport.findings)) = 1
    ELSE TheReport.riskScore = WeightSum(TheReport.findings, Len(TheReport.findings))

\* A report has been returned with a finding that occurred more than once.
C15_Witness ==
  /\ HasReport
  /\ \E i \in 1..Len(TheReport.findings) :
       /\ TheReport.findings[i].metadata.key = "occurrences"
       /\ TheReport.findings[i].metadata.num > 1
  /\ TheReport.riskScore > 0

\* C16: in every report, riskLevel is critical exactly when riskScore >= 18,
\* high exactly when 12 <= riskScore < 18, medium exactly when
\* 6 <= riskScore < 12, and low exactly when riskScore < 6.
C16_LevelThresholds ==
  HasReport =>
    /\ TheReport.riskLevel = "critical" <=> TheReport.riskScore >= 18
    /\ TheReport.riskLevel = "high"
         <=> (12 <= TheReport.riskScore /\ TheReport.riskScore < 18)
    /\ TheReport.riskLevel = "medium"
         <=> (6 <= TheReport.riskScore /\ TheReport.riskScore < 12)
    /\ TheReport.riskLevel = "low" <=> TheReport.riskScore < 6

\* A report whose score is exactly on the threshold of critical.
C16_Witness == HasReport /\ TheReport.riskScore = 18 /\ TheReport.riskLevel = "critical"

\* Reports exactly on the thresholds of high and of medium.
C16_OnHigh == HasReport /\ TheReport.riskScore = 12

C16_OnMedium == HasReport /\ TheReport.riskScore = 6

\* The number of findings with the given id.
FindingCount(findings, id) == Cardinality({i \in 1..Len(findings) : findings[i].id = id})

\* A balance was passed and it is not the empty string.
BalanceKnown == analysis.balanceWei.def /\ analysis.balanceWei.val # <<>>

\* Some finding of the opcode scan or of the ABI scan is high or critical.
RiskyFindingPresent ==
  \E i \in 1..Len(TheReport.findings) :
    /\ TheReport.findings[i].id \notin {"high-balance-with-risks", "suspicious-padding"}
    /\ TheReport.findings[i].severity \in {"high", "critical"}

\* The bytecode is one DELEGATECALL and one SELFDESTRUCT and no ABI finding
\* is added.
DelegatecallAndSelfdestruct ==
  /\ Instructions(HexOf(analysis.bytecode), 0) \in { <<<<"f", "4">>, <<"f", "f">>>>,
                                                     <<<<"f", "f">>, <<"f", "4">>>> }
  /\ analysis.abi \in {NoAbi, AbiOf(<<>>)}

\* C17: a report has exactly one finding high-balance-with-risks, of severity
\* high, when a non-empty balance was passed and a finding of the opcode or
\* ABI scan is high or critical, and none otherwise; one DELEGATECALL and one
\* SELFDESTRUCT score 12 (high) without a balance and 18 (critical) with one.
C17_BalanceAtRisk ==
  HasReport =>
    /\ FindingCount(TheReport.findings, "high-balance-with-risks")
         = IF BalanceKnown /\ RiskyFindingPresent THEN 1 ELSE 0
    /\ \A i \in 1..Len(TheReport.findings) :
         TheReport.findings[i].id = "high-balance-with-risks"
           => TheReport.findings[i].severity = "high"
    /\ DelegatecallAndSelfdestruct =>
         IF BalanceKnown
         THEN TheReport.riskScore = 18 /\ TheReport.riskLevel = "critical"
         ELSE TheReport.riskScore = 12 /\ TheReport.riskLevel = "high"

\* The report for DELEGATECALL, SELFDESTRUCT and a known balance.
C17_Witness ==
  /\ HasReport
  /\ DelegatecallAndSelfdestruct
  /\ BalanceKnown
  /\ FindingCount(TheReport.findings, "high-balance-with-risks") = 1

\* A known balance and no risky finding: the rule must stay silent.
C17_BalanceWithoutRisk == HasReport /\ BalanceKnown /\ ~RiskyFindingPresent

\* C18: for a bytecode that is not empty, a report has exactly one finding
\* suspicious-padding, of severity medium, when four times the number of
\* instructions is below the number of bytes, and none otherwise.
C18_SuspiciousPadding ==
  (HasReport /\ HexOf(analysis.bytecode) # <<>>) =>
    LET instructionCount == Len(Instructions(HexOf(analysis.bytecode), 0))
        byteCount        == Len(HexOf(analysis.bytecode)) \div 2
    IN  /\ Len(HexOf(analysis.bytecode)) = 2 * byteCount
        /\ FindingCount(TheReport.findings, "suspicious-padding")
             = IF 4 * instructionCount < byteCount THEN 1 ELSE 0
        /\ \A i \in 1..Len(TheReport.findings) :
             TheReport.findings[i].id = "suspicious-padding"
               => TheReport.findings[i].severity = "medium"

\* A padded report: one instruction in more than four bytes.
C18_Witness ==
  /\ HasReport
  /\ Len(Instructions(HexOf(analysis.bytecode), 0)) = 1
  /\ Len(HexOf(analysis.bytecode)) = 10
  /\ FindingCount(TheReport.findings, "suspicious-padding") = 1

\* A report at a ratio of exactly 0.25: one instruction in four bytes.
C18_AtQuarter ==
  /\ HasReport
  /\ Len(Instructions(HexOf(analysis.bytecode), 0)) = 1
  /\ Len(HexOf(analysis.bytecode)) = 8

\* The ABI scanner has returned.
Scanned == analysis.pc = "scanned"

\* The digits of a bytecode that keccak256 accepts: an even number of them,
\* each hexadecimal.
WellFormedHex(hex) ==
  /\ Len(hex) % 2 = 0
  /\ \A i \in 1..Len(hex) :
       hex[i] \in {"0", "1", "2", "3", "4", "5", "6", "7", "8", "9",
                   "a", "b", "c", "d", "e", "f"}

\* C19: without an ABI the scanner returns no findings; for an ABI that does
\* not parse it returns exactly one finding, abi-parse-error of severity
\* medium, and no administrative or financial finding; analyzeBytecode called
\* with such an ABI on well-formed bytecode still returns a report, which for
\* a bytecode that is not empty carries that one finding.
C19_AbiOptionalAndParseError ==
  /\ (Scanned /\ analysis.abi = NoAbi) => analysis.abiFindings = <<>>
  /\ (Scanned /\ analysis.abi = MalformedAbi) =>
       /\ Len(analysis.abiFindings) = 1
       /\ analysis.abiFindings[1].id = "abi-parse-error"
       /\ analysis.abiFindings[1].severity = "medium"
  /\ (analysis.pc = "returned" /\ analysis.abi \in {NoAbi, MalformedAbi}
        /\ WellFormedHex(HexOf(analysis.bytecode))) =>
       /\ ~TheReport.threw
       /\ FindingCount(TheReport.findings, "admin-function-detected") = 0
       /\ FindingCount(TheReport.findings, "financial-function-detected") = 0
       /\ FindingCount(TheReport.findings, "abi-parse-error")
            = IF analysis.abi = MalformedAbi /\ HexOf(analysis.bytecode) # <<>>
              THEN 1 ELSE 0

\* A report returned for an ABI that does not parse, with the parse error
\* among its findings.
C19_Witness ==
  /\ HasReport
  /\ analysis.abi = MalformedAbi
  /\ FindingCount(TheReport.findings, "abi-parse-error") = 1

\* The scanner has returned for an ABI that does not parse.
C19_ScannedMalformed == Scanned /\ analysis.abi = MalformedAbi /\ analysis.abiFindings # <<>>

\* The functions of the ABI whose name, in lower case, contains a keyword.
MatchingFunctions(keywords) ==
  {i \in 1..Len(analysis.abi.fragments) :
     /\ analysis.abi.fragments[i].type = "function"
     /\ \E keyword \in keywords :
          Includes(ToLowerCase(analysis.abi.fragments[i].name), keyword)}

\* The findings with the given id are none when no function matches, and
\* otherwise one, of the given severity, carrying the number of matches.
AggregateFinding(id, matches, severity) ==
  /\ FindingCount(analysis.abiFindings, id) = IF matches = {} THEN 0 ELSE 1
  /\ \A i \in 1..Len(analysis.abiFindings) :
       analysis.abiFindings[i].id = id =>
         /\ analysis.abiFindings[i].severity = severity
         /\ analysis.abiFindings[i].metadata.key = "count"
         /\ analysis.abiFindings[i].metadata.num = Cardinality(matches)

\* C20: for a parsed ABI the scanner returns an administrative finding exactly
\* when a function name contains an administrative keyword and a financial
\* finding exactly when one contains a financial keyword, case ignored, one
\* of each at most and nothing else; the administrative finding is high for
\* more than two matching functions and medium otherwise, the financial one
\* is medium, and each carries the number of matching functions.
C20_AggregateAbiFindings ==
  (Scanned /\ analysis.abi.kind = "fragments") =>
    /\ AggregateFinding("admin-function-detected", MatchingFunctions(adminKeywords),
                        IF Cardinality(MatchingFunctions(adminKeywords)) > 2
                        THEN "high" ELSE "medium")
    /\ AggregateFinding("financial-function-detected",
                        MatchingFunctions(financialKeywords), "medium")
    /\ FindingIds(analysis.abiFindings)
         \subseteq {"admin-function-detected", "financial-function-detected"}

\* Three functions with administrative names: one finding of severity high.
C20_Witness ==
  /\ Scanned
  /\ analysis.abi.kind = "fragments"
  /\ Cardinality(MatchingFunctions(adminKeywords)) = 3
  /\ FindingCount(analysis.abiFindings, "admin-function-detected") = 1

\* A function whose name contains two keywords of one set, two matching
\* functions in all.
C20_TwoKeywordsInOneName ==
  /\ Scanned
  /\ analysis.abi.kind = "fragments"
  /\ Cardinality(MatchingFunctions(adminKeywords)) = 2
  /\ \E i \in MatchingFunctions(adminKeywords) :
       Cardinality({keyword \in adminKeywords :
                      Includes(ToLowerCase(analysis.abi.fragments[i].name), keyword)}) > 1

\* A name matched only after lower-casing, and a function in both sets.
C20_UpperCaseMatch ==
  /\ Scanned
  /\ analysis.abi.kind = "fragments"
  /\ MatchingFunctions(adminKeywords) # {}
  /\ \A i \in MatchingFunctions(adminKeywords) :
       \A keyword \in adminKeywords : ~Includes(analysis.abi.fragments[i].name, keyword)

C20_InBothSets ==
  /\ Scanned
  /\ analysis.abi.kind = "fragments"
  /\ MatchingFunctions(adminKeywords) \cap MatchingFunctions(financialKeywords) # {}

\* The first call and the last one, once both have returned.
CalledAgain == analysis.pc = "again"

FirstRun ==
  [bytecode |-> analysis.bytecode, balanceWei |-> analysis.balanceWei,
   blockNumber |-> UndefinedNum, abi |-> analysis.abi, report |-> analysis.report[1]]

LastRun == analysis.again[1]

SameArguments(a, b) ==
  /\ a.bytecode = b.bytecode
  /\ a.balanceWei = b.balanceWei
  /\ a.blockNumber = b.blockNumber
  /\ a.abi = b.abi

\* The ids and severities of the findings, in order.
IdsAndSeverities(findings) ==
  [i \in 1..Len(findings) |-> <<findings[i].id, findings[i].severity>>]

BytesOf(bytecode) ==
  IF Len(bytecode) >= 2 /\ bytecode[1] = "0" /\ bytecode[2] = "x"
  THEN [i \in 1..(Len(bytecode) - 2) |-> ToLowerChar(bytecode[i + 2])]
  ELSE [i \in 1..Len(bytecode) |-> ToLowerChar(bytecode[i])]

\* The calls made so far that returned a report.
ReturnedRuns ==
  {run \in {FirstRun} \cup (IF analysis.between = <<>> THEN {} ELSE {analysis.between[1]})
                      \cup {LastRun} : ~run.report.threw}

\* C22: two reports carry the same bytecodeHash exactly when they are for the
\* same bytes: the same bytecode gives the same hash whatever the balance,
\* block height, ABI, 0x prefix or letter case, and bytecodes that differ in
\* a byte give different hashes.
C22_HashOfNormalizedBytecode ==
  CalledAgain =>
    \A a, b \in ReturnedRuns :
      a.report.bytecodeHash = b.report.bytecodeHash <=> BytesOf(a.bytecode) = BytesOf(b.bytecode)

\* Two reports for the same bytes, written with and without the prefix or in
\* another letter case, with another balance, block height and ABI.
C22_Witness ==
  /\ CalledAgain
  /\ ~FirstRun.report.threw /\ ~LastRun.report.threw
  /\ BytesOf(FirstRun.bytecode) = BytesOf(LastRun.bytecode)
  /\ FirstRun.bytecode # LastRun.bytecode
  /\ FirstRun.balanceWei # LastRun.balanceWei
  /\ FirstRun.blockNumber # LastRun.blockNumber
  /\ FirstRun.abi # LastRun.abi
  /\ FirstRun.report.bytecodeHash = LastRun.report.bytecodeHash

\* Two reports for bytecodes of the same length that differ in one byte.
C22_OneByteApart ==
  /\ CalledAgain
  /\ ~FirstRun.report.threw /\ ~LastRun.report.threw
  /\ Len(BytesOf(FirstRun.bytecode)) = Len(BytesOf(LastRun.bytecode))
  /\ Cardinality({i \in 1..Len(BytesOf(FirstRun.bytecode)) :
                    BytesOf(FirstRun.bytecode)[i] # BytesOf(LastRun.bytecode)[i]}) = 1

\* The records of the contract store for an (address, network) pair.
ContractsOf(cs, address, network) ==
  {i \in 1..Len(cs) : cs[i].address = address /\ cs[i].network = network}

\* Request r has just passed ensureContract.
Ensured(r) == requests[r].pc = "idle" /\ requests'[r].pc = "dedup"

\* C23: the contract store never holds two records for one (normalized
\* address, network) pair; no step deletes a record or changes its address
\* or network; and a submission that passes ensureContract finds the one
\* record of its pair, which the step has created if there was none.
C23_OneContractPerPair ==
  [][ /\ \A i, j \in 1..Len(contracts') :
           (contracts'[i].address = contracts'[j].address
              /\ contracts'[i].network = contracts'[j].network) => i = j
      /\ Len(contracts') >= Len(contracts)
      /\ \A i \in 1..Len(contracts) :
           /\ contracts'[i].address = contracts[i].address
           /\ contracts'[i].network = contracts[i].network
      /\ \A r \in Requests :
           Ensured(r) =>
             /\ ContractsOf(contracts', requests'[r].address, requests'[r].network)
                  = {requests'[r].contract}
             /\ Len(contracts') = Len(contracts)
                  + (IF ContractsOf(contracts, requests'[r].address, requests'[r].network) = {}
                     THEN 1 ELSE 0)
    ]_vars

\* Two submissions for one pair have passed ensureContract, and a submission
\* for the same address on another network has its own record: here with two
\* requests, one pair each or the same pair twice.
C23_Witness ==
  /\ \A r \in Requests : requests[r].contract # 0
  /\ requests[1].contract = requests[2].contract
  /\ Len(contracts) = 1

C23_TwoNetworks ==
  /\ Len(contracts) = 2
  /\ contracts[1].address = contracts[2].address
  /\ contracts[1].network # contracts[2].network

\* C24: whenever a contract's latestScan is set, it is a scan of that
\* contract whose status is succeeded, and the contract's riskScore and
\* riskLevel are that scan's.
C24_LatestScanMirrored ==
  \A c \in 1..Len(contracts) :
    contracts[c].latestScan # 0 =>
      /\ contracts[c].latestScan \in ScanIds
      /\ scans[contracts[c].latestScan].contract = c
      /\ scans[contracts[c].latestScan].status = "succeeded"
      /\ scans[contracts[c].latestScan].results # <<>>
      /\ contracts[c].riskScore = Some(scans[contracts[c].latestScan].results[1].riskScore)
      /\ contracts[c].riskLevel = scans[contracts[c].latestScan].results[1].riskLevel

\* The keys of the report cache that a step has written: new, or with a new
\* value.
ReportsWritten ==
  {k \in DOMAIN reportCache' : k \notin DOMAIN reportCache \/ reportCache'[k] # reportCache[k]}

\* The worker has gone past cacheScanReport without an exception.
ReportCached == worker.pc = "cacheReport" /\ worker'.pc = "updateContract"

\* C25: the report cache is written by cacheScanReport only, for the scan of
\* the job at hand, when the scan document already has status succeeded and
\* the results that are cached; every entry carries status succeeded, and
\* no entry exists for a scan that is pending.
C25_CachedAfterSucceeded ==
  [][ /\ ReportsWritten # {} => (ReportCached /\ ReportsWritten = {worker.job.scanId})
      /\ ReportCached =>
           /\ worker.job.scanId \in DOMAIN reportCache'
           /\ worker.job.scanId \in ScanIds
           /\ scans[worker.job.scanId].status = "succeeded"
           /\ scans[worker.job.scanId].results = reportCache'[worker.job.scanId].results
      /\ \A k \in DOMAIN reportCache' :
           /\ reportCache'[k].status = "succeeded"
           /\ k \in 1..Len(scans')
           /\ scans'[k].status # "pending"
    ]_vars

\* A report is in the cache.
C25_Witness ==
  \E k \in DOMAIN reportCache : k \in ScanIds /\ reportCache[k].status = "succeeded"

\* C26: no entry of the bytecode cache holds the empty string or a bare 0x.
C26_NoEmptyBytecodeCached ==
  \A address \in DOMAIN bytecodeCache : bytecodeCache[address] \notin EmptyBytecodes

\* The bytecode cache has an entry for the address when it is read.
BytecodeCached(address) == address \in DOMAIN bytecodeCache

C27_SnapshotHit == snapshot.pc = "cacheGet" /\ BytecodeCached(snapshot.address)

\* The messages on the queue that carry the scan.
JobsOf(q, scanId) == {i \in 1..Len(q) : q[i].value.scanId = scanId}

\* Request r's send has gone through; it has been rejected; the request has
\* been answered with a scan that was already in flight.
Sent(r) == requests[r].pc = "send" /\ requests'[r].pc = "done"

SendRejected(r) == requests[r].pc = "send" /\ requests'[r].pc = "failed"

Deduplicated(r) == requests[r].pc = "dedup" /\ requests'[r].pc = "done"

\* What the queue is to hold and when: a message is appended only by a send
\* that goes through, for a scan that is in the store, with that scan's id,
\* its contract's id, the normalized address and network of that contract
\* and the scan's ABI, under the contract id as key; a rejected send and a
\* deduplicated submission leave the queue alone, and the latter the scans.
JobDiscipline ==
  /\ queue' # queue => \E r \in Requests : Sent(r)
  /\ \A r \in Requests :
       /\ Sent(r) =>
            /\ Len(queue') = Len(queue) + 1
            /\ \A i \in 1..Len(queue) : queue'[i] = queue[i]
            /\ LET message == queue'[Len(queue')]
                   job     == message.value
               IN  /\ job.scanId \in ScanIds
                   /\ job.scanId = requests'[r].scan
                   /\ JobsOf(queue, job.scanId) = {}
                   /\ job.contractId = scans[job.scanId].contract
                   /\ job.contractId \in 1..Len(contracts)
                   /\ job.address = contracts[job.contractId].address
                   /\ job.address.form = "lower" /\ ~job.address.pad
                   /\ job.network = contracts[job.contractId].network
                   /\ job.abi = scans[job.scanId].abi
                   /\ message.key = job.contractId
       /\ SendRejected(r) => queue' = queue
       /\ Deduplicated(r) =>
            /\ queue' = queue
            /\ scans' = scans
            /\ requests'[r].scan \in ScanIds
            /\ scans[requests'[r].scan].status \in InFlightStatuses

\* The scans whose submission is over: no request is between the insert and
\* the send.
Submitted(s) == \A r \in Requests : ~(requests[r].pc = "send" /\ requests[r].scan = s)

\* C28 as stated: every scan that createScanRequest created has exactly one
\* job on the queue once its submission is over, the job as described, and a
\* deduplicated submission sends nothing and changes no scan.
C28_ExactlyOneJob ==
  [][ /\ JobDiscipline
      /\ \A s \in 1..Len(scans') : Submitted(s)' => Cardinality(JobsOf(queue', s)) = 1
    ]_vars

\* C28 amended: a scan that createScanRequest created has at most one job on
\* the queue, and exactly one once its send has gone through, placed after
\* the scan record exists and as described; a scan whose send was rejected
\* has none; a deduplicated submission sends nothing and changes no scan.
C28_OneJobWhenSent ==
  [][ /\ JobDiscipline
      /\ \A s \in 1..Len(scans') : Cardinality(JobsOf(queue', s)) <= 1
      /\ \A r \in Requests :
           /\ Sent(r) => Cardinality(JobsOf(queue', requests'[r].scan)) = 1
           /\ SendRejected(r) => JobsOf(queue', requests'[r].scan) = {}
    ]_vars

\* Two scans with a job each, and a submission answered with a scan in flight.
C28_Witness ==
  /\ Len(queue) = 1
  /\ queue[1].value.abi # NoAbi
  /\ \E r \in Requests :
       /\ requests[r].pc = "done"
       /\ requests[r].scan = queue[1].value.scanId
       /\ \E q \in Requests \ {r} : requests[q].pc = "done" /\ requests[q].scan = requests[r].scan

\* The entries and the keys of a metadata object.
EntriesOf(metadata) == {metadata[i] : i \in 1..Len(metadata)}

KeysOf(metadata) == {metadata[i].key : i \in 1..Len(metadata)}

\* The entries of an object after the supplied one has been merged into it.
Merged(metadata, supplied) ==
  EntriesOf(supplied) \cup {e \in EntriesOf(metadata) : e.key \notin KeysOf(supplied)}

\* Request r has just passed ensureContract for a contract that existed.
EnsuredExisting(r) ==
  /\ Ensured(r)
  /\ ContractsOf(contracts, requests'[r].address, requests'[r].network) # {}

\* ensureContract on an existing contract keeps every label and adds the
\* supplied ones, and leaves riskScore, riskLevel, latestScan and every
\* other contract as they were.
LabelsAndRiskKept(r) ==
  LET c == requests'[r].contract
  IN  /\ contracts[c].labels \subseteq contracts'[c].labels
      /\ \E labels \in LabelInputs :
           contracts'[c].labels
             = contracts[c].labels \cup {labels[i] : i \in 1..Len(labels)}
      /\ contracts'[c].riskScore = contracts[c].riskScore
      /\ contracts'[c].riskLevel = contracts[c].riskLevel
      /\ contracts'[c].latestScan = contracts[c].latestScan
      /\ Len(contracts') = Len(contracts)
      /\ \A d \in 1..Len(contracts) : d # c => contracts'[d] = contracts[d]

\* Every metadata entry whose key is not supplied is kept, and the supplied
\* entries are set.
MetadataMerged(r) ==
  LET c == requests'[r].contract
  IN  \E supplied \in MetadataInputs :
        EntriesOf(contracts'[c].metadata) = Merged(contracts[c].metadata, supplied)

\* C29: ensureContract on an existing contract adds the supplied labels to
\* the label set and merges the supplied metadata, and leaves every existing
\* label, every metadata key that is not supplied, and riskScore, riskLevel
\* and latestScan unchanged.
C29_EnsureContractMerges ==
  [][\A r \in Requests : EnsuredExisting(r) => (LabelsAndRiskKept(r) /\ MetadataMerged(r))]_vars

\* The part of C29 that is not about metadata.
EnsureContractKeepsLabelsAndRisk ==
  [][\A r \in Requests : EnsuredExisting(r) => LabelsAndRiskKept(r)]_vars

\* A contract with a rolled-up risk, two labels and metadata: ensureContract
\* has been called on it after a scan was completed.
LabelledAfterScan ==
  \E c \in 1..Len(contracts) :
    /\ contracts[c].latestScan # 0
    /\ Cardinality(contracts[c].labels) = 2
    /\ contracts[c].metadata # <<>>

(***************************************************************************)
(* C30                                                                     *)
(***************************************************************************)

\* The byte of a hexadecimal string at byte offset p (0-based).
ByteAt(hex, p) == Slice(hex, 2 * p, 2 * p + 2)

\* The reference walk: the byte offsets visited from offset p on, 1 + n bytes
\* further after a push of n bytes (0x60..0x7f, n = opcode - 0x5f) and 1 byte
\* further otherwise.
RECURSIVE Visited(_, _)
Visited(hex, p) ==
  IF 2 * p >= Len(hex) THEN {}
  ELSE {p} \cup Visited(hex, IF ParseInt16(ByteAt(hex, p)) \in 96..127
                               THEN p + 1 + (ParseInt16(ByteAt(hex, p)) - 95)
                               ELSE p + 1)

VisitedHolding(hex, key) == {p \in Visited(hex, 0) : ByteAt(hex, p) = key}

CatalogNamesVisited(hex) ==
  {opcodeMetadata[e].name : e \in {x \in 1..Len(opcodeMetadata) :
                                     VisitedHolding(hex, opcodeMetadata[x].key) # {}}}

\* C30: for every non-empty bytecode that analyzeBytecode reports on,
\* totalOpcodes is the number of positions the reference walk visits,
\* uniqueOpcodes is the number of distinct byte values at those positions,
\* and dangerousOpcodeHits has exactly the names of the catalog opcodes held
\* by a visited position as keys, each mapped to the number of visited
\* positions holding that opcode.
C30_SummaryMatchesReferenceWalk ==
  (HasReport /\ HexOf(analysis.bytecode) # <<>>) =>
    /\ TheReport.opcodeSummary.totalOpcodes
         = Cardinality(Visited(HexOf(analysis.bytecode), 0))
    /\ TheReport.opcodeSummary.uniqueOpcodes
         = Cardinality({ParseInt16(ByteAt(HexOf(analysis.bytecode), p)) :
                          p \in Visited(HexOf(analysis.bytecode), 0)})
    /\ DOMAIN TheReport.opcodeSummary.dangerousOpcodeHits
         = CatalogNamesVisited(HexOf(analysis.bytecode))
    /\ \A e \in 1..Len(opcodeMetadata) :
         opcodeMetadata[e].name \in DOMAIN TheReport.opcodeSummary.dangerousOpcodeHits
           => TheReport.opcodeSummary.dangerousOpcodeHits[opcodeMetadata[e].name]
                = Cardinality(VisitedHolding(HexOf(analysis.bytecode),
                                             opcodeMetadata[e].key))

\* A report on a bytecode with a push, in which an uncatalogued opcode is
\* visited, one byte value is visited more than once and a catalogued opcode
\* is counted.
C30_Witness ==
  /\ HasReport
  /\ HexOf(analysis.bytecode) # <<>>
  /\ \E p \in Visited(HexOf(analysis.bytecode), 0) :
       ParseInt16(ByteAt(HexOf(analysis.bytecode), p)) \in 96..127
  /\ TheReport.opcodeSummary.uniqueOpcodes < TheReport.opcodeSummary.totalOpcodes
  /\ DOMAIN TheReport.opcodeSummary.dangerousOpcodeHits # {}
  /\ Cardinality(DOMAIN TheReport.opcodeSummary.dangerousOpcodeHits)
       < TheReport.opcodeSummary.uniqueOpcodes

\* A report in which a catalogued opcode is counted twice.
C30_CountedTwice ==
  /\ HasReport
  /\ \E n \in DOMAIN TheReport.opcodeSummary.dangerousOpcodeHits :
       TheReport.opcodeSummary.dangerousOpcodeHits[n] = 2

(***************************************************************************)
(* C31                                                                     *)
(***************************************************************************)

\* The reports on a bytecode that is not empty.
WalkedRuns == {run \in ReturnedRuns : BytesOf(run.bytecode) # <<>>}

\* The hit count of a catalog entry in a report, 0 when it has no key.
HitCount(run, e) ==
  IF opcodeMetadata[e].name \in DOMAIN run.report.opcodeSummary.dangerousOpcodeHits
  THEN run.report.opcodeSummary.dangerousOpcodeHits[opcodeMetadata[e].name]
  ELSE 0

\* The catalog entries with a hit count above zero.
CatalogOpcodesIn(run) == {e \in 1..Len(opcodeMetadata) : HitCount(run, e) > 0}

FindingsWithId(findings, id) == {i \in 1..Len(findings) : findings[i].id = id}

Padded(run) == FindingsWithId(run.report.findings, "suspicious-padding") # {}

\* Two calls that differ at most in how often the catalogued opcodes occur:
\* the same catalogued opcodes are present, the balance and the ABI are the
\* same, and the padding rule answers the same.
OnlyOccurrencesDiffer(a, b) ==
  /\ CatalogOpcodesIn(a) = CatalogOpcodesIn(b)
  /\ a.balanceWei = b.balanceWei
  /\ a.abi = b.abi
  /\ Padded(a) = Padded(b)

\* C31: a report has exactly one opcode finding for each catalog opcode with
\* a hit count above zero and none for the others, with the severity of the
\* catalog and the hit count as its occurrences; two reports whose bytecodes
\* differ only in how often a catalogued opcode occurs have the same findings
\* (ids and severities, in order), the same riskScore and the same riskLevel.
C31_OccurrencesDoNotScore ==
  CalledAgain =>
    /\ \A run \in WalkedRuns : \A e \in 1..Len(opcodeMetadata) :
         LET count == HitCount(run, e)
             found == FindingsWithId(run.report.findings, opcodeMetadata[e].id)
         IN  /\ Cardinality(found) = IF count > 0 THEN 1 ELSE 0
             /\ \A i \in found :
                  /\ run.report.findings[i].severity = opcodeMetadata[e].severity
                  /\ run.report.findings[i].metadata = NumMetadata("occurrences", count)
    /\ \A a, b \in WalkedRuns :
         OnlyOccurrencesDiffer(a, b) =>
           /\ IdsAndSeverities(a.report.findings) = IdsAndSeverities(b.report.findings)
           /\ a.report.riskScore = b.report.riskScore
           /\ a.report.riskLevel = b.report.riskLevel

\* Two reports, one on a bytecode with one DELEGATECALL and one on a bytecode
\* with two, that differ in the occurrences of the finding.
C31_Witness ==
  /\ CalledAgain
  /\ FirstRun \in WalkedRuns /\ LastRun \in WalkedRuns
  /\ OnlyOccurrencesDiffer(FirstRun, LastRun)
  /\ \E e \in CatalogOpcodesIn(FirstRun) :
       HitCount(FirstRun, e) = 1 /\ HitCount(LastRun, e) = 2
  /\ FirstRun.report.findings # LastRun.report.findings
  /\ FirstRun.report.riskScore = LastRun.report.riskScore
  /\ FirstRun.report.riskScore > 0

(***************************************************************************)
(* C32                                                                     *)
(***************************************************************************)

AbiFindingIds == {"abi-parse-error", "admin-function-detected", "financial-function-detected"}

\* The place of a finding in the catalog's iteration order, 0 for a finding
\* that is no opcode finding.
OpcodeRank(id) ==
  IF \E e \in 1..Len(opcodeMetadata) : opcodeMetadata[e].id = id
  THEN CHOOSE e \in 1..Len(opcodeMetadata) : opcodeMetadata[e].id = id
  ELSE 0

\* The stage of analyzeBytecode that appends a finding.
Stage(id) ==
  IF OpcodeRank(id) # 0 THEN 1
  ELSE IF id \in AbiFindingIds THEN 2
  ELSE IF id = "high-balance-with-risks" THEN 3
  ELSE IF id = "suspicious-padding" THEN 4
  ELSE 0

OpcodeFindingCount(findings) ==
  Cardinality({i \in 1..Len(findings) : Stage(findings[i].id) = 1})

\* C32: in the report on a bytecode that is not empty the opcode findings
\* come first, in the catalog's iteration order, then the findings analyzeAbi
\* returned, as it returned them, then high-balance-with-risks if present,
\* then suspicious-padding if present, and there is no other finding.
C32_InsertionOrder ==
  CalledAgain =>
    \A run \in WalkedRuns :
      LET f     == run.report.findings
          abi   == analyzeAbi(run.abi)
          first == OpcodeFindingCount(f)
      IN  /\ \A i \in 1..Len(f) : Stage(f[i].id) # 0
          /\ \A i \in 1..(Len(f) - 1) :
               /\ Stage(f[i].id) <= Stage(f[i + 1].id)
               /\ Stage(f[i].id) = Stage(f[i + 1].id) => Stage(f[i].id) \in {1, 2}
               /\ Stage(f[i + 1].id) = 1 => OpcodeRank(f[i].id) < OpcodeRank(f[i + 1].id)
          /\ Len(f) >= first + Len(abi)
          /\ SubSeq(f, first + 1, first + Len(abi)) = abi
          /\ Cardinality({i \in 1..Len(f) : Stage(f[i].id) = 2}) = Len(abi)

\* A report with two opcode findings whose opcodes stand in the bytecode in
\* the other order, an ABI finding, high-balance-with-risks and
\* suspicious-padding.
C32_Witness ==
  /\ HasReport
  /\ BytesOf(analysis.bytecode) # <<>>
  /\ Len(TheReport.findings) >= 5
  /\ TheReport.findings[1].id = "origin-usage"
  /\ TheReport.findings[2].id = "selfdestruct-usage"
  /\ SubSeq(BytesOf(analysis.bytecode), 1, 4) = <<"f", "f", "3", "2">>
  /\ {Stage(TheReport.findings[i].id) : i \in 1..Len(TheReport.findings)} = {1, 2, 3, 4}

(***************************************************************************)
(* C33                                                                     *)
(***************************************************************************)

\* No call of processScanJob for the scan is under way.
Unattended(s) == worker.pc = "idle" \/ worker.job.scanId # s

\* The scan was left pending by a createScanRequest whose send rejected.
LeftPending(s) ==
  /\ scans[s].status = "pending"
  /\ \E r \in Requests : requests[r].pc = "failed" /\ requests[r].scan = s

\* The scan was left running: the call of processScanJob that wrote running
\* is gone (the worker was stopped, or the write of failed rejected).
LeftRunning(s) == scans[s].status = "running" /\ Unattended(s)

Stuck(s) == LeftPending(s) \/ LeftRunning(s)

\* The query of a createScanRequest for the contract is answered.
QueryAnswered(r, contractId) ==
  /\ requests[r].pc = "dedup"
  /\ requests[r].contract = contractId
  /\ requests'[r] # requests[r]

\* C33: a scan left pending by a failed enqueue, or left running by a worker
\* that stopped in the middle of its job, is stuck for good: no step changes
\* its status or takes it up again, and every createScanRequest whose query
\* for its contract runs meanwhile is answered with that scan and sends
\* nothing.
C33_StuckForever ==
  [][\A s \in ScanIds :
       Stuck(s) =>
         /\ Stuck(s)'
         /\ scans'[s].status = scans[s].status
         /\ \A r \in Requests :
              QueryAnswered(r, scans[s].contract) =>
                /\ requests'[r].pc \in {"done", "failed"}
                /\ requests'[r].pc = "done" => requests'[r].scan = s
                /\ queue' = queue]_vars

\* A scan left running by a worker that was stopped after the write of
\* running.
StuckAfterCrash ==
  /\ restarts > 0
  /\ \E s \in ScanIds : LeftRunning(s)

\* A scan left pending by a send that rejected, handed to a later request
\* for its contract.
StuckPendingReturned ==
  \E s \in ScanIds :
    /\ LeftPending(s)
    /\ \E r \in Requests : requests[r].pc = "done" /\ requests[r].scan = s

(***************************************************************************)
(* C34                                                                     *)
(***************************************************************************)

\* createScanRequest has sent the job of the scan.
Enqueued(s) == \E i \in 1..Len(queue) : queue[i].value.scanId = s

Finished(s) == s \in ScanIds /\ scans[s].status \in Terminal

\* The worker is in the catch clause of the scan's job after a chain or a
\* cache error.
ChainOrCacheError(s) ==
  worker.pc = "catch" /\ worker.job.scanId = s /\ worker.error \in {"chain", "cache"}

\* C34: when every enqueued job is delivered, the worker is not stopped and
\* the writes to the durable store go through, every scan whose job was sent
\* is succeeded or failed in the end; a chain or cache error leads to failed
\* and no scan is left running without a job under way.
C34_EveryEnqueuedScanFinishes ==
  /\ \A s \in Requests : Enqueued(s) ~> Finished(s)
  /\ \A s \in Requests : ChainOrCacheError(s) ~> (s \in ScanIds /\ scans[s].status = "failed")
  /\ [](\A s \in ScanIds : ~LeftRunning(s))

\* A scan that failed on a chain or cache error and another that succeeded,
\* both with their jobs sent, and nothing left for the worker to do.
C34_Witness ==
  /\ worker.pc = "idle"
  /\ position = Len(queue)
  /\ \E s, t \in ScanIds :
       /\ Enqueued(s) /\ Enqueued(t)
       /\ scans[s].status = "failed" /\ scans[s].error \in {"chain", "cache"}
       /\ scans[t].status = "succeeded"

(***************************************************************************)
(* C35                                                                     *)
(***************************************************************************)

\* The job whose call of processScanJob takes the step: the one under way,
\* or the one the worker is handed by the step.
JobOfStep == IF worker.pc = "idle" THEN queue'[position'].value ELSE worker.job

WorkerStep == worker' # worker \/ position' = position + 1

\* C35: the worker is handed a message only when the call of processScanJob
\* for the message before has returned, and until it returns every status
\* write, contract write and cache write of the worker belongs to the one
\* job under way, the message handed over last.
C35_OneJobAtATime ==
  [][/\ position' = position + 1 => worker.pc = "idle"
     /\ worker'.pc # "idle" => (position' > 0 /\ worker'.job = queue'[position'].value)
     /\ (WorkerStep /\ position' >= position) =>
          /\ \A s \in ScanIds : scans'[s] # scans[s] => s = JobOfStep.scanId
          /\ \A c \in 1..Len(contracts) :
               contracts'[c] # contracts[c] => c = JobOfStep.contractId
          /\ \A id \in DOMAIN reportCache' :
               (id \notin DOMAIN reportCache \/ reportCache'[id] # reportCache[id])
                 => id = JobOfStep.scanId
          /\ \A a \in DOMAIN bytecodeCache' :
               (a \notin DOMAIN bytecodeCache \/ bytecodeCache'[a] # bytecodeCache[a])
                 => a = JobOfStep.address]_vars

\* The worker is at work on the second message after it has finished the
\* first, without having been restarted.
C35_Witness ==
  /\ restarts = 0
  /\ position = 2
  /\ worker.pc \notin {"idle", "fetch"}
  /\ worker.job = queue[2].value
  /\ queue[1].value.scanId # queue[2].value.scanId
  /\ scans[queue[1].value.scanId].status \in Terminal

(***************************************************************************)
(* C36                                                                     *)
(***************************************************************************)

\* The fields of a contract that updateContractRisk writes.
RiskOf(contract) == <<contract.riskScore, contract.riskLevel, contract.latestScan>>

\* The call of processScanJob under way ends with the write of failed.
EndsFailed ==
  /\ worker.pc = "catch"
  /\ worker'.pc = "idle"
  /\ scans'[worker.job.scanId].status = "failed"

\* C36: the risk score, risk level and latest scan of a contract change only
\* in the last step of the success path of a job for that contract, after
\* the scan was written succeeded and the report cached, and to the values
\* of that job's report; no step of a job that goes to the catch clause, and
\* no step of the catch clause, changes them.
C36_FailedJobLeavesContract ==
  [][/\ \A c \in 1..Len(contracts) :
          RiskOf(contracts'[c]) # RiskOf(contracts[c]) =>
            /\ worker.pc = "updateContract"
            /\ worker' = IdleWorker
            /\ c = worker.job.contractId
            /\ scans[worker.job.scanId].status = "succeeded"
            /\ contracts'[c].latestScan = worker.job.scanId
            /\ contracts'[c].riskScore = Some(scans[worker.job.scanId].results[1].riskScore)
            /\ contracts'[c].riskLevel = scans[worker.job.scanId].results[1].riskLevel
     /\ (worker'.pc = "catch" \/ EndsFailed) =>
          \A c \in 1..Len(contracts) : RiskOf(contracts'[c]) = RiskOf(contracts[c])]_vars

\* A contract whose risk mirrors a succeeded scan after a later job for it
\* has ended failed.
C36_Witness ==
  /\ worker.pc = "idle"
  /\ \E s, t \in ScanIds :
       /\ s < t
       /\ scans[s].contract = scans[t].contract
       /\ scans[s].status = "succeeded"
       /\ scans[t].status = "failed"
       /\ contracts[scans[s].contract].latestScan = s
       /\ contracts[scans[s].contract].riskScore = Some(scans[s].results[1].riskScore)

(***************************************************************************)
(* C37                                                                     *)
(***************************************************************************)

\* The worker has its report.
WorkerReported == worker.pc = "analysed" /\ ~TheReport.threw

\* The weights of the opcode findings and the ABI findings of the report.
RECURSIVE OpcodeAndAbiWeight(_, _)
OpcodeAndAbiWeight(findings, n) ==
  IF n = 0 THEN 0
  ELSE OpcodeAndAbiWeight(findings, n - 1)
         + (IF Stage(findings[n].id) \in {1, 2} THEN WeightOf(findings[n].severity) ELSE 0)

\* C37: the balance processScanJob passes to the analyzer is a string that is
\* not empty, "0" for a balance of zero, so a report of the worker with a high
\* or critical opcode or ABI finding has high-balance-with-risks too,
\* whatever the balance, and its riskScore is not the sum of the weights of
\* its opcode and ABI findings.
C37_WorkerAlwaysPassesBalance ==
  worker.pc = "analysed" =>
    /\ TheReport.balanceWei.def
    /\ TheReport.balanceWei.val # <<>>
    /\ worker.balance = 0 => TheReport.balanceWei.val = <<"0">>
    /\ (~TheReport.threw /\ RiskyFindingPresent) =>
         /\ FindingCount(TheReport.findings, "high-balance-with-risks") = 1
         /\ TheReport.riskScore
              # OpcodeAndAbiWeight(TheReport.findings, Len(TheReport.findings))

\* The worker's report on an account with no funds and a risky opcode, with
\* high-balance-with-risks in it.
C37_Witness ==
  /\ WorkerReported
  /\ worker.balance = 0
  /\ \E i \in 1..Len(TheReport.findings) :
       Stage(TheReport.findings[i].id) = 1 /\ TheReport.findings[i].severity = "high"
  /\ FindingCount(TheReport.findings, "high-balance-with-risks") = 1

\* The worker's report on an account with no funds whose only risky finding
\* is of the ABI.
C37_RiskyAbiOnly ==
  /\ WorkerReported
  /\ worker.balance = 0
  /\ \A i \in 1..Len(TheReport.findings) :
       Stage(TheReport.findings[i].id) = 1 => TheReport.findings[i].severity \in {"low", "medium"}
  /\ \E i \in 1..Len(TheReport.findings) :
       Stage(TheReport.findings[i].id) = 2 /\ TheReport.findings[i].severity = "high"
  /\ FindingCount(TheReport.findings, "high-balance-with-risks") = 1

(***************************************************************************)
(* C38                                                                     *)
(***************************************************************************)

\* The iteration reads a push opcode whose operand runs past the end.
TruncatedPush ==
  /\ ParseInt16(Slice(analysis.hex, analysis.i, analysis.i + 2)) \in 96..127
  /\ analysis.i + 2 + 2 * (ParseInt16(Slice(analysis.hex, analysis.i, analysis.i + 2)) - 95)
       > Len(analysis.hex)

\* C38: the walk ends on every hex string: an iteration is taken only while
\* the position is before the end, it moves the position on by at least one
\* byte and counts one instruction; the loop is left at the first position at
\* or past the end, also after a push whose operand runs past the end and on
\* a string of odd length; a truncated push counts as one instruction and
\* adds at most the hit of its own opcode; the walk has visited the positions
\* of the reference walk when it ends.
C38_WalkTerminates ==
  /\ <>(analysis.pc = "walked")
  /\ [][/\ analysis'.i # analysis.i =>
             /\ analysis.i < Len(analysis.hex)
             /\ analysis'.i >= analysis.i + 2
             /\ analysis'.totalOpcodes = analysis.totalOpcodes + 1
             /\ TruncatedPush =>
                  /\ analysis'.i > Len(analysis.hex)
                  /\ analysis'.hits = analysis.hits
        /\ analysis'.pc = "walked" =>
             /\ analysis.i >= Len(analysis.hex)
             /\ analysis'.i = analysis.i
             /\ 2 * analysis'.totalOpcodes <= Len(analysis.hex) + 1
             /\ analysis'.totalOpcodes = Cardinality(Visited(analysis.hex, 0))
             /\ DOMAIN analysis'.hits = CatalogNamesVisited(analysis.hex)]_vars

\* The walk of PUSH32 followed by one byte has ended: one instruction, no
\* hit, the position past the end.
C38_Witness ==
  /\ analysis.pc = "walked"
  /\ analysis.hex = <<"7", "f", "f", "f">>
  /\ analysis.totalOpcodes = 1
  /\ analysis.hits = EmptyHits
  /\ analysis.i > Len(analysis.hex)

\* The walk of a string of odd length has ended after reading its last digit
\* as an instruction.
C38_OddLength ==
  /\ analysis.pc = "walked"
  /\ Len(analysis.hex) = 3
  /\ analysis.totalOpcodes = 2
  /\ analysis.i = 4

(***************************************************************************)
(* C39                                                                     *)
(***************************************************************************)

\* eachMessage returns without a call of processScanJob under way: the
\* message had no value, was no JSON, or the write of running rejected.
Dropped == position' = position + 1 /\ worker'.pc = "idle"

\* The catch clause returns and the scan is not failed: its write rejected.
FailedWriteRejected ==
  /\ worker.pc = "catch"
  /\ worker'.pc = "idle"
  /\ scans'[worker.job.scanId].status # "failed"

\* C39: a message without a value or with a value that is no JSON is always
\* dropped; when a message is dropped, or the write of failed rejects, no
\* scan, contract or cache entry changes, so the scan keeps the status it
\* had; no step of the worker puts a message on the topic; and the worker
\* goes on: every message on the topic is handed to it in the end.
C39_BadMessagesDropped ==
  /\ [][/\ (position' = position + 1 /\ ~IsJob(queue[position'])) => Dropped
        /\ (Dropped \/ FailedWriteRejected) =>
             /\ scans' = scans
             /\ contracts' = contracts
             /\ reportCache' = reportCache
             /\ bytecodeCache' = bytecodeCache
             /\ worker' = IdleWorker
        /\ (worker' # worker \/ position' # position) => queue' = queue]_vars
  /\ \A i \in 1..(MaxRequests + MaxForeign) : (Len(queue) >= i) ~> (position >= i)

\* A message that is no JSON was dropped, and the job sent after it was run
\* to the end.
C39_Witness ==
  /\ position = 2
  /\ worker.pc = "idle"
  /\ queue[1].value = Unparseable
  /\ IsJob(queue[2])
  /\ scans[queue[2].value.scanId].status = "succeeded"

\* A message without a value was dropped between two jobs.
C39_NoValueDropped ==
  /\ position = 3
  /\ worker.pc = "idle"
  /\ IsJob(queue[1])
  /\ queue[2].value = NullValue
  /\ IsJob(queue[3])
  /\ scans[queue[3].value.scanId].status \in Terminal

\* A scan left running because the write of failed rejected, with the
\* message after its job consumed.
C39_FailedWriteLost ==
  /\ position = 2
  /\ worker.pc = "idle"
  /\ IsJob(queue[1])
  /\ scans[queue[1].value.scanId].status = "running"

=============================================================================
